---- MODULE Spec2Model ----
(***************************************************************************)
(* A model of the chat relay server (src/server.py): the per-connection    *)
(* handler threads of ChatServer.handle_client, the Connection Registry    *)
(* (self.clients), the SQLite tables users / groups / messages, and the    *)
(* pushes each handler sends.                                              *)
(*                                                                         *)
(* Text that the server encrypts is a sequence of character codes; names   *)
(* (usernames, room names, passwords, PINs) are strings, and StrChars      *)
(* gives the characters of a name where the server serialises it.          *)
(***************************************************************************)
EXTENDS Integers, Sequences, FiniteSets, TLC

(***************************************************************************)
(* Values                                                                  *)
(***************************************************************************)

\* Python's None (a missing frame field, the handler's username before login).
NONE == "<None>"

\* `not x` for a string field: None and the empty string are both falsy.
Falsy(x) == x = NONE \/ x = ""

\* Python's None where a text (a sequence of character codes) is expected:
\* no text equals it, since character codes are not negative.
NoText == <<-1>>

\* The connections (accepted sockets) of the model.
Conns == {"c1", "c2"}

\* The usernames a client may put in a frame ("" stands for a missing or
\* empty field).
Users == {"alice", "bob"}
UserArgs == Users \cup {""}

\* The usernames a group_add_user frame may name as its target: "carol" never
\* signs up.
TargetArgs == Users \cup {"carol", ""}

\* Passwords a client may put in a frame.
Passwords == {"pw1", "pw2"}
PasswordArgs == Passwords \cup {""}

\* Room names and PINs a client may put in a frame.
Rooms == {"team"}
RoomArgs == Rooms \cup {""}
Pins == {"1234", "9999"}
PinArgs == Pins \cup {""}

\* The characters (code points) of the names the server serialises.
StrChars(s) ==
    CASE s = "alice" -> <<97, 108, 105, 99, 101>>
      [] s = "bob"   -> <<98, 111, 98>>
      [] s = "bob:x" -> <<98, 111, 98, 58, 120>>
      [] s = "team"  -> <<116, 101, 97, 109>>
      [] OTHER       -> <<>>

\* Message contents: "hi", "hé" (Latin-1) and "€" (beyond Latin-1).
TextHi == <<104, 105>>
TextLatin == <<104, 233>>
TextEuro == <<8364>>
Contents == {TextHi, TextEuro}
ContentArgs == Contents \cup {<<>>}

(***************************************************************************)
(* hash_password, encrypt_data, decrypt_data, json.dumps / json.loads      *)
(***************************************************************************)

\* hashlib.sha256(...).hexdigest(): a digest is modelled as a value that is
\* equal for equal inputs and different from every plain string.
hash_password(password) == [sha256 |-> password]

\* ENCRYPTION_KEY = "SecureKey2024"
ENCRYPTION_KEY == <<83, 101, 99, 117, 114, 101, 75, 101, 121, 50, 48, 50, 52>>

\* a ^ b on non-negative integers, bit by bit.
RECURSIVE XorBits(_, _)
XorBits(a, b) ==
    IF a = 0 THEN b
    ELSE IF b = 0 THEN a
    ELSE (((a % 2) + (b % 2)) % 2) + 2 * XorBits(a \div 2, b \div 2)

\* XorBits tabulated for a byte and a key character (computed once).
XorTable == [a \in 0..255 |-> [b \in 0..127 |-> XorBits(a, b)]]

\* ord(c) ^ ord(k)
Xor(a, b) == IF a <= 255 /\ b <= 127 THEN XorTable[a][b] ELSE XorBits(a, b)

\* ENCRYPTION_KEY[i % len(ENCRYPTION_KEY)] for the 0-based index i.
KeyAt(i) == ENCRYPTION_KEY[(i % Len(ENCRYPTION_KEY)) + 1]

\* The base64 alphabet: the character code of a 6-bit value.
B64Char(v) ==
    IF v < 26 THEN 65 + v
    ELSE IF v < 52 THEN 97 + (v - 26)
    ELSE IF v < 62 THEN 48 + (v - 52)
    ELSE IF v = 62 THEN 43 ELSE 47

B64Val(c) ==
    IF c >= 65 /\ c <= 90 THEN c - 65
    ELSE IF c >= 97 /\ c <= 122 THEN 26 + (c - 97)
    ELSE IF c >= 48 /\ c <= 57 THEN 52 + (c - 48)
    ELSE IF c = 43 THEN 62 ELSE 63

B64Pad == 61

RECURSIVE b64encode(_)
b64encode(bs) ==
    IF Len(bs) = 0 THEN <<>>
    ELSE IF Len(bs) = 1 THEN
        <<B64Char(bs[1] \div 4), B64Char((bs[1] % 4) * 16), B64Pad, B64Pad>>
    ELSE IF Len(bs) = 2 THEN
        <<B64Char(bs[1] \div 4),
          B64Char(((bs[1] % 4) * 16) + (bs[2] \div 16)),
          B64Char((bs[2] % 16) * 4), B64Pad>>
    ELSE
        <<B64Char(bs[1] \div 4),
          B64Char(((bs[1] % 4) * 16) + (bs[2] \div 16)),
          B64Char(((bs[2] % 16) * 4) + (bs[3] \div 64)),
          B64Char(bs[3] % 64)>> \o b64encode(SubSeq(bs, 4, Len(bs)))

RECURSIVE b64decode(_)
b64decode(cs) ==
    IF Len(cs) < 4 THEN <<>>
    ELSE
        LET a == B64Val(cs[1])
            b == B64Val(cs[2])
            c == B64Val(cs[3])
            d == B64Val(cs[4])
            rest == b64decode(SubSeq(cs, 5, Len(cs)))
        IN  IF cs[3] = B64Pad THEN <<(a * 4) + (b \div 16)>>
            ELSE IF cs[4] = B64Pad THEN
                <<(a * 4) + (b \div 16), ((b % 16) * 16) + (c \div 4)>>
            ELSE <<(a * 4) + (b \div 16), ((b % 16) * 16) + (c \div 4),
                   ((c % 4) * 64) + d>> \o rest

\* bytes([...]) raises ValueError when a value is outside range(0, 256).
encrypt_raises(text) ==
    \E i \in 1..Len(text) : Xor(text[i], KeyAt(i - 1)) > 255

\* encrypt_data: None for an empty text, else base64 of the XOR-ed bytes.
encrypt_data(text) ==
    IF Len(text) = 0 THEN NoText
    ELSE b64encode([i \in 1..Len(text) |-> Xor(text[i], KeyAt(i - 1))])

\* decrypt_data: None for an empty value, else the XOR of the decoded bytes.
decrypt_data(encrypted) ==
    IF encrypted = NoText \/ encrypted = <<>> THEN NoText
    ELSE LET data == b64decode(encrypted)
         IN  [i \in 1..Len(data) |-> Xor(data[i], KeyAt(i - 1))]

\* json.dumps of a list of usernames (None is written null), with Python's
\* default separators: ["alice", "bob"].
RECURSIVE json_items(_)
json_items(members) ==
    IF Len(members) = 0 THEN <<>>
    ELSE (IF Head(members) = NONE THEN <<110, 117, 108, 108>>
          ELSE <<34>> \o StrChars(Head(members)) \o <<34>>)
         \o (IF Len(members) = 1 THEN <<>>
             ELSE <<44, 32>> \o json_items(Tail(members)))

json_dumps(members) == <<91>> \o json_items(members) \o <<93>>

\* The index of the first occurrence of code c in s at or after i (0: none).
RECURSIVE IndexFrom(_, _, _)
IndexFrom(s, c, i) ==
    IF i > Len(s) THEN 0
    ELSE IF s[i] = c THEN i ELSE IndexFrom(s, c, i + 1)

\* The name whose characters are cs (the names of the model only).
CharsStr(cs) == CHOOSE s \in Users : StrChars(s) = cs

\* json.loads of such a list, read from position i (just after "[" or ", ").
RECURSIVE json_parse(_, _)
json_parse(s, i) ==
    IF i > Len(s) \/ s[i] = 93 THEN <<>>
    ELSE IF s[i] = 110 THEN
        <<NONE>> \o (IF s[i + 4] = 44 THEN json_parse(s, i + 6) ELSE <<>>)
    ELSE
        LET close == IndexFrom(s, 34, i + 1)
        IN  <<CharsStr(SubSeq(s, i + 1, close - 1))>>
            \o (IF s[close + 1] = 44 THEN json_parse(s, close + 3) ELSE <<>>)

json_loads(s) == json_parse(s, 2)

\* json.loads(decrypt_data(x) or '[]')
load_members(encrypted) ==
    LET text == decrypt_data(encrypted)
    IN  IF text = NoText \/ text = <<>> THEN <<>> ELSE json_loads(text)

(***************************************************************************)
(* State                                                                   *)
(***************************************************************************)

VARIABLES
    users,        \* table users: username -> password_hash
    groups,       \* table groups: name -> [pin_hash, creator, members]
    messages,     \* table messages: the rows, in insertion order
    clients,      \* self.clients: username -> socket
    group_calls,  \* self.group_calls: room_name -> list of participants
    pc,           \* where each connection's handler thread is
    username,     \* handle_client's local variable `username`
    last,         \* the frame (or event) the last step handled, and its socket
    out,          \* what the last step sent, per socket, in order
    udp_audio_clients,  \* self.udp_audio_clients: username -> address
    udp_video_clients,  \* self.udp_video_clients: username -> address
    udp_sent,     \* the datagrams the last step sent, in order
    db_lock,      \* self.db_lock: the socket whose handler holds it, or NONE
    locals        \* a handler's frame and locals while it mutates a membership

vars == <<users, groups, messages, clients, group_calls, pc, username, last, out,
          udp_audio_clients, udp_video_clients, udp_sent, db_lock, locals>>

\* The locals of a handler that is not inside a membership mutation.
NoLocal == [frame |-> [type |-> NONE], members |-> <<>>]

\* No handler is inside a membership mutation.
NoLocals == [c \in Conns |-> NoLocal]

\* A step that takes and releases self.db_lock within itself, or never
\* takes it.
LockIdle == UNCHANGED <<db_lock, locals>>

\* A step of a TCP handler thread: the relay threads do nothing in it.
UdpIdle ==
    /\ udp_sent' = <<>>
    /\ UNCHANGED <<udp_audio_clients, udp_video_clients>>

\* A handler thread is not started ("closed": no socket, or conn.close() done),
\* blocked in receive_json ("recv"), or between handle_login's return of a
\* username and the registry write of handle_client ("register"); inside a
\* membership mutation it waits for self.db_lock ("lock"), is about to run its
\* SELECT ("select"), its UPDATE ("update") or its notifications ("notify");
\* in the statement-level disconnect path it is inside the loop of
\* broadcast_user_list ("broadcast") or was ended by an exception that left
\* the finally block ("aborted").
PcValues ==
    {"closed", "recv", "register", "lock", "select", "update", "notify",
     "broadcast", "aborted"}

EmptyOut == [c \in Conns |-> <<>>]

\* send_json(sock, data): sock.sendall raises on a closed socket and send_json
\* swallows it, so only an open socket receives the data.
send_json(o, sock, data) ==
    IF pc[sock] = "closed" THEN o ELSE [o EXCEPT ![sock] = Append(@, data)]

\* for client in reg.values(): send_json(client, payload), over the keys `us`.
RECURSIVE send_all(_, _, _, _)
send_all(o, reg, us, payload) ==
    IF us = {} THEN o
    ELSE LET u == CHOOSE v \in us : TRUE
         IN  send_all(send_json(o, reg[u], payload), reg, us \ {u}, payload)

\* An `in` test that finds nothing in the list.
ElemsNone(list) == {}

\* The elements of a list, as a set (`x in members`).
Elems(list) == {list[i] : i \in 1..Len(list)}

\* SELECT username FROM users: the keys of the table tbl, one row each (the
\* query has no ORDER BY; the rows come in one fixed order).
RECURSIVE select_usernames(_)
select_usernames(names) ==
    IF names = {} THEN <<>>
    ELSE LET u == CHOOSE v \in names : TRUE
         IN  <<u>> \o select_usernames(names \ {u})

\* 'online' if u in self.clients else 'offline'
status(u, reg) == IF u \in DOMAIN reg THEN "online" ELSE "offline"

\* The payload broadcast_user_list builds when the registry is reg.
user_list_payload(reg) ==
    LET all_users == select_usernames(DOMAIN users)
        user_list == [i \in 1..Len(all_users) |->
                         [username |-> all_users[i], status |-> status(all_users[i], reg)]]
    IN  [type |-> "list", users |-> user_list]

\* broadcast_user_list with the registry reg.
broadcast_user_list(o, reg) == send_all(o, reg, DOMAIN reg, user_list_payload(reg))

\* A send_groups_list that sends the directory listing only.
send_groups_list_directory_only(o, conn, name, grp) ==
    send_json(o, conn, [type |-> "all_groups_list", groups |-> DOMAIN grp])

\* send_groups_list(conn, name) over the groups table grp.
send_groups_list(o, conn, name, grp) ==
    LET my_groups == {[name |-> g, creator |-> grp[g].creator] :
                        g \in {h \in DOMAIN grp :
                                 name \in Elems(load_members(grp[h].members))}}
        o1 == send_json(o, conn, [type |-> "all_groups_list", groups |-> DOMAIN grp])
    IN  send_json(o1, conn, [type |-> "my_groups_list", groups |-> my_groups])

AuthResult(success, message) ==
    [type |-> "auth_result", success |-> success, message |-> message]

\* A system notice; its content is the tuple of the parts of the (f-)string.
SystemText(content) == [type |-> "text", from |-> "SYSTEM", content |-> content]

\* A group_msg notice from SYSTEM.
SystemGroupMsg(g, content) ==
    [type |-> "group_msg", room_name |-> g, from |-> "SYSTEM", content |-> content]

\* broadcast_groups_update over the groups table grp.
broadcast_groups_update(o, grp) ==
    send_all(o, clients, DOMAIN clients,
             [type |-> "all_groups_list", groups |-> DOMAIN grp])

\* for member in members: if member != exclude and member in self.clients: send
RECURSIVE send_members(_, _, _, _)
send_members(o, members, message, exclude) ==
    IF Len(members) = 0 THEN o
    ELSE LET member == Head(members)
             o1 == IF member # exclude /\ member \in DOMAIN clients
                   THEN send_json(o, clients[member], message) ELSE o
         IN  send_members(o1, Tail(members), message, exclude)

\* broadcast_to_group that excludes nobody.
broadcast_to_group_no_exclude(o, grp, group_name, message, exclude) ==
    IF group_name \notin DOMAIN grp THEN o
    ELSE send_members(o, load_members(grp[group_name].members), message, NONE)

\* broadcast_to_group over the groups table grp.
broadcast_to_group(o, grp, group_name, message, exclude) ==
    IF group_name \notin DOMAIN grp THEN o
    ELSE send_members(o, load_members(grp[group_name].members), message, exclude)

\* A membership test that only looks for the group.
is_group_member_any(name, group_name) == group_name \in DOMAIN groups

\* is_group_member
is_group_member(name, group_name) ==
    /\ group_name \in DOMAIN groups
    /\ name \in Elems(load_members(groups[group_name].members))

\* members.remove that removes nothing.
list_remove_nothing(members, name) == members

\* members.remove(name): the list without the first occurrence of name.
RECURSIVE list_remove(_, _)
list_remove(members, name) ==
    IF Len(members) = 0 THEN <<>>
    ELSE IF Head(members) = name THEN Tail(members)
    ELSE <<Head(members)>> \o list_remove(Tail(members), name)

\* An UPDATE that leaves the stored list as it was.
update_members_lost(group_name, members) == groups

\* UPDATE groups SET members=? WHERE name=?
update_members(group_name, members) ==
    [groups EXCEPT ![group_name].members = encrypt_data(json_dumps(members))]


(***************************************************************************)
(* Connections: accept, authentication, disconnect                         *)
(***************************************************************************)

Init ==
    /\ users = << >>
    /\ groups = << >>
    /\ messages = << >>
    /\ clients = << >>
    /\ group_calls = << >>
    /\ pc = [c \in Conns |-> "closed"]
    /\ username = [c \in Conns |-> NONE]
    /\ last = [conn |-> NONE, frame |-> [type |-> "<start>"]]
    /\ out = EmptyOut
    /\ udp_audio_clients = <<>>
    /\ udp_video_clients = <<>>
    /\ udp_sent = <<>>
    /\ db_lock = NONE
    /\ locals = NoLocals

\* start(): accept() returns a new socket and a handler thread starts on it.
\* A socket the registry still refers to is a live object, so its name is
\* not given to a new socket.
Accept(c) ==
    /\ pc[c] = "closed"
    /\ \A u \in DOMAIN clients : clients[u] # c
    /\ pc' = [pc EXCEPT ![c] = "recv"]
    /\ username' = [username EXCEPT ![c] = NONE]
    /\ last' = [conn |-> c, frame |-> [type |-> "<accept>"]]
    /\ out' = EmptyOut
    /\ UNCHANGED <<users, groups, messages, clients, group_calls>>
    /\ UdpIdle
    /\ LockIdle

\* A handle_signup whose INSERT replaces the row of an existing username.
SignupReplaces(c, u, p) ==
    /\ pc[c] = "recv"
    /\ last' = [conn |-> c, frame |-> [type |-> "signup", username |-> u, password |-> p]]
    /\ IF Falsy(u) \/ Falsy(p) THEN
            /\ out' = send_json(EmptyOut, c, AuthResult(FALSE, "Invalid credentials"))
            /\ users' = users
       ELSE
            /\ users' = (u :> hash_password(p)) @@ users
            /\ out' = send_json(EmptyOut, c, AuthResult(TRUE, "Account created"))
    /\ UNCHANGED <<groups, messages, clients, group_calls, pc, username>>
    /\ UdpIdle
    /\ LockIdle

\* handle_signup
Signup(c, u, p) ==
    /\ pc[c] = "recv"
    /\ last' = [conn |-> c, frame |-> [type |-> "signup", username |-> u, password |-> p]]
    /\ IF Falsy(u) \/ Falsy(p) THEN
            /\ out' = send_json(EmptyOut, c, AuthResult(FALSE, "Invalid credentials"))
            /\ users' = users
       ELSE IF u \in DOMAIN users THEN
            \* sqlite3.IntegrityError: username is the PRIMARY KEY
            /\ out' = send_json(EmptyOut, c, AuthResult(FALSE, "Username exists"))
            /\ users' = users
       ELSE
            /\ users' = (u :> hash_password(p)) @@ users
            /\ out' = send_json(EmptyOut, c, AuthResult(TRUE, "Account created"))
    /\ UNCHANGED <<groups, messages, clients, group_calls, pc, username>>
    /\ UdpIdle
    /\ LockIdle

\* handle_login without the `username in self.clients` test.
handle_login_no_registry_test(u, p) ==
    IF Falsy(u) \/ Falsy(p) THEN
        [reply |-> AuthResult(FALSE, "Invalid credentials"), ret |-> NONE]
    ELSE IF u \in DOMAIN users /\ users[u] = hash_password(p) THEN
        [reply |-> AuthResult(TRUE, "Login successful"), ret |-> u]
    ELSE
        [reply |-> AuthResult(FALSE, "Invalid credentials"), ret |-> NONE]

\* handle_login with the registry test ahead of the password test.
handle_login_registry_first(u, p) ==
    IF Falsy(u) \/ Falsy(p) THEN
        [reply |-> AuthResult(FALSE, "Invalid credentials"), ret |-> NONE]
    ELSE IF u \in DOMAIN clients THEN
        [reply |-> AuthResult(FALSE, "Already logged in"), ret |-> NONE]
    ELSE IF u \in DOMAIN users /\ users[u] = hash_password(p) THEN
        [reply |-> AuthResult(TRUE, "Login successful"), ret |-> u]
    ELSE
        [reply |-> AuthResult(FALSE, "Invalid credentials"), ret |-> NONE]

\* handle_login's result: the reply it sends and the value it returns.
handle_login(u, p) ==
    IF Falsy(u) \/ Falsy(p) THEN
        [reply |-> AuthResult(FALSE, "Invalid credentials"), ret |-> NONE]
    ELSE IF u \in DOMAIN users /\ users[u] = hash_password(p) THEN
        IF u \in DOMAIN clients THEN
            [reply |-> AuthResult(FALSE, "Already logged in"), ret |-> NONE]
        ELSE
            [reply |-> AuthResult(TRUE, "Login successful"), ret |-> u]
    ELSE
        [reply |-> AuthResult(FALSE, "Invalid credentials"), ret |-> NONE]

\* The login branch of handle_client up to the return of handle_login:
\* `username = self.handle_login(conn, msg)`.
LoginCheck(c, u, p) ==
    /\ pc[c] = "recv"
    /\ LET r == handle_login(u, p)
       IN  /\ out' = send_json(EmptyOut, c, r.reply)
           /\ username' = [username EXCEPT ![c] = r.ret]
           /\ pc' = [pc EXCEPT ![c] = IF r.ret = NONE THEN "recv" ELSE "register"]
    /\ last' = [conn |-> c, frame |-> [type |-> "login", username |-> u, password |-> p]]
    /\ UNCHANGED <<users, groups, messages, clients, group_calls>>
    /\ UdpIdle
    /\ LockIdle

\* The rest of the login branch: the registry write, broadcast_user_list and
\* send_groups_list.
LoginRegister(c) ==
    /\ pc[c] = "register"
    /\ LET reg == (username[c] :> c) @@ clients
       IN  /\ clients' = reg
           /\ out' = send_groups_list(broadcast_user_list(EmptyOut, reg),
                                      c, username[c], groups)
    /\ pc' = [pc EXCEPT ![c] = "recv"]
    /\ last' = [conn |-> c, frame |-> [type |-> "<register>"]]
    /\ UNCHANGED <<users, groups, messages, group_calls, username>>
    /\ UdpIdle
    /\ LockIdle

\* The `finally` block of handle_client, run by the handler of socket c with
\* its local username name.
disconnect_registry(name) ==
    IF ~Falsy(name) /\ name \in DOMAIN clients
    THEN [v \in DOMAIN clients \ {name} |-> clients[v]]
    ELSE clients

disconnect_out(name) ==
    IF ~Falsy(name) /\ name \in DOMAIN clients
    THEN broadcast_user_list(EmptyOut, disconnect_registry(name))
    ELSE EmptyOut

\* A finally block that also takes the identity off every call roster.
DisconnectClearsCalls(c) ==
    /\ pc[c] = "recv"
    /\ clients' = disconnect_registry(username[c])
    /\ out' = disconnect_out(username[c])
    /\ pc' = [pc EXCEPT ![c] = "closed"]
    /\ last' = [conn |-> c, frame |-> [type |-> "<eof>"]]
    /\ group_calls' = [g \in DOMAIN group_calls |->
                          SelectSeq(group_calls[g], LAMBDA m : m # username[c])]
    /\ UNCHANGED <<users, groups, messages, username>>
    /\ UdpIdle
    /\ LockIdle

\* receive_json returns None (EOF, a socket error, a bad header, a short
\* read or invalid JSON): the loop breaks and the finally block runs.
Disconnect(c) ==
    /\ pc[c] = "recv"
    /\ clients' = disconnect_registry(username[c])
    /\ out' = disconnect_out(username[c])
    /\ pc' = [pc EXCEPT ![c] = "closed"]
    /\ last' = [conn |-> c, frame |-> [type |-> "<eof>"]]
    /\ UNCHANGED <<users, groups, messages, group_calls, username>>
    /\ UdpIdle
    /\ LockIdle

(***************************************************************************)
(* The disconnect path, statement by statement                             *)
(***************************************************************************)

\* The dict iterator of `for client in self.clients.values()` finds, on its
\* next step, that the dict's size is not the size it started with, and
\* raises RuntimeError.
dict_changed_size(it) == Cardinality(DOMAIN clients) # it.size

\* The finally block of the handler of socket c up to the start of the loop
\* of broadcast_user_list: the registry entry is deleted, the payload is
\* built and the iterator over the registry is created; without an entry
\* to delete the socket is closed at once.
FinallyBegin(c) ==
    /\ pc[c] = "recv"
    /\ IF ~Falsy(username[c]) /\ username[c] \in DOMAIN clients
       THEN LET reg == disconnect_registry(username[c])
            IN  /\ clients' = reg
                /\ pc' = [pc EXCEPT ![c] = "broadcast"]
                /\ locals' = [locals EXCEPT ![c] =
                                 [payload |-> user_list_payload(reg),
                                  size |-> Cardinality(DOMAIN reg),
                                  todo |-> DOMAIN reg,
                                  visited |-> {}]]
       ELSE /\ clients' = clients
            /\ pc' = [pc EXCEPT ![c] = "closed"]
            /\ locals' = locals
    /\ last' = [conn |-> c, frame |-> [type |-> "<eof>"]]
    /\ out' = EmptyOut
    /\ UNCHANGED <<users, groups, messages, group_calls, username, db_lock>>
    /\ UdpIdle

\* One turn of the loop of broadcast_user_list in the finally block of
\* socket c, run while other handler threads change the registry: the
\* iterator raises RuntimeError if the dict changed size, and the exception
\* leaves the finally block before conn.close() ("aborted": the thread is
\* gone, the socket was never closed); otherwise the next session is sent
\* the payload, or the loop ends and the socket is closed.
BroadcastNext(c) ==
    /\ pc[c] = "broadcast"
    /\ LET it == locals[c]
           left == it.todo \cap DOMAIN clients
       IN  IF dict_changed_size(it) THEN
                /\ pc' = [pc EXCEPT ![c] = "aborted"]
                /\ out' = EmptyOut
                /\ locals' = locals
           ELSE IF left = {} THEN
                /\ pc' = [pc EXCEPT ![c] = "closed"]
                /\ out' = EmptyOut
                /\ locals' = locals
           ELSE
                \E u \in left :
                   /\ out' = send_json(EmptyOut, clients[u], it.payload)
                   /\ locals' = [locals EXCEPT ![c].todo = it.todo \ {u},
                                               ![c].visited = it.visited \cup {u}]
                   /\ pc' = pc
    /\ last' = [conn |-> c, frame |-> [type |-> "<broadcast>"]]
    /\ UNCHANGED <<users, groups, messages, clients, group_calls, username, db_lock>>
    /\ UdpIdle

(***************************************************************************)
(* Framing and dispatch                                                    *)
(***************************************************************************)

\* The types handle_client dispatches on (MSG_* constants).
CatalogTypes ==
    {"signup", "login", "private", "file", "voice_msg", "call", "call_accept",
     "call_reject", "group_create", "group_join", "group_leave", "group_msg",
     "group_file", "group_call", "group_call_accept", "group_voice_msg",
     "group_add_user", "req_history"}

\* A parsed JSON value, as far as the dispatch loop looks at it: its kind, the
\* value of its "type" key (NONE: no such key, or not an object) and its size
\* (number of keys of an object, value of a number).
JsonValue(json, type, size) == [json |-> json, type |-> type, size |-> size]

\* Python's None, which is also json.loads("null").
JsonNull == JsonValue("null", NONE, 0)

\* `not msg`: None, 0 and the empty object are falsy.
py_falsy(v) == v.json = "null" \/ v.size = 0

\* What arrives on a socket for one receive_json call: the header read
\* ("numeric", "garbage": not a number, "short": the peer closed inside it),
\* whether the payload arrives in full, whether it parses as JSON, and the
\* value it parses to.
WireFrame(header, complete, parses, value) ==
    [header |-> header, complete |-> complete, parses |-> parses, value |-> value]

\* A receive_json that resynchronises after a payload that does not parse.
receive_json_skips_bad_json(frame) ==
    IF frame.header # "numeric" \/ ~frame.complete THEN JsonNull
    ELSE IF ~frame.parses THEN JsonValue("object", NONE, 1)
    ELSE frame.value

\* receive_json: None on a short or non-numeric header, a short payload or a
\* payload that json.loads rejects (the bare except), else the parsed value.
receive_json(frame) ==
    IF frame.header # "numeric" \/ ~frame.complete \/ ~frame.parses THEN JsonNull
    ELSE frame.value

\* One turn of the dispatch loop on a frame that is not a well-formed frame
\* of a catalog type: `if not msg: break` ends the loop; msg.get on a value
\* that is not an object raises AttributeError; an object whose type matches
\* no branch falls through the if/elif chain.
Receive(c, frame) ==
    /\ pc[c] = "recv"
    /\ receive_json(frame).type \notin CatalogTypes
    /\ last' = [conn |-> c, frame |-> [type |-> "<wire>", wire |-> frame]]
    /\ LET msg == receive_json(frame)
       IN  IF py_falsy(msg) \/ msg.json # "object" THEN
                /\ clients' = disconnect_registry(username[c])
                /\ out' = disconnect_out(username[c])
                /\ pc' = [pc EXCEPT ![c] = "closed"]
           ELSE
                /\ out' = EmptyOut
                /\ UNCHANGED <<clients, pc>>
    /\ UNCHANGED <<users, groups, messages, group_calls, username>>
    /\ UdpIdle
    /\ LockIdle

\* The frames of that kind the model sends: a garbage header, a header cut
\* short, a payload cut short, a payload that is not JSON, and the JSON
\* values null, 0, 5, {}, {"a": 1} and {"type": "ping"}.
WireFrames ==
    {WireFrame("garbage", TRUE, TRUE, JsonValue("object", "ping", 1)),
     WireFrame("short", FALSE, TRUE, JsonValue("object", "ping", 1)),
     WireFrame("numeric", FALSE, TRUE, JsonValue("object", "ping", 1)),
     WireFrame("numeric", TRUE, FALSE, JsonNull),
     WireFrame("numeric", TRUE, TRUE, JsonNull),
     WireFrame("numeric", TRUE, TRUE, JsonValue("number", NONE, 0)),
     WireFrame("numeric", TRUE, TRUE, JsonValue("number", NONE, 5)),
     WireFrame("numeric", TRUE, TRUE, JsonValue("object", NONE, 0)),
     WireFrame("numeric", TRUE, TRUE, JsonValue("object", NONE, 1)),
     WireFrame("numeric", TRUE, TRUE, JsonValue("object", "ping", 1))}

(***************************************************************************)
(* Group Directory                                                         *)
(***************************************************************************)

\* An INSERT that fails only on NOT NULL, replacing an existing row.
insert_group_fails_not_null_only(g, creator) == creator = NONE

\* INSERT INTO groups raises sqlite3.IntegrityError: name is the PRIMARY KEY
\* and creator is NOT NULL.
insert_group_fails(g, creator) == g \in DOMAIN groups \/ creator = NONE

\* A group created with no member.
initial_members_empty(creator) == <<>>

\* json.dumps([creator]): the initial membership list.
initial_members(creator) == <<creator>>

\* A PIN test that accepts every PIN.
pin_matches_any(g, pin) == TRUE

\* hash_password(pin) != pin_hash, negated.
pin_matches(g, pin) == hash_password(pin) = groups[g].pin_hash

\* A creator test that accepts every sender.
is_creator_anyone(g, sender) == TRUE

\* creator != sender, negated.
is_creator(g, sender) == groups[g].creator = sender

\* target_user in self.clients
target_online(target_user) == target_user \in DOMAIN clients

\* handle_group_create
GroupCreate(c, g, pin) ==
    /\ pc[c] = "recv"
    /\ last' = [conn |-> c, frame |-> [type |-> "group_create", room_name |-> g, pin |-> pin]]
    /\ LET creator == username[c]
       IN  IF Falsy(g) \/ Falsy(pin) THEN
                /\ out' = send_json(EmptyOut, c, SystemText(<<"Invalid group data">>))
                /\ groups' = groups
           ELSE IF insert_group_fails(g, creator) THEN
                /\ out' = send_json(EmptyOut, c, SystemText(<<"Group already exists">>))
                /\ groups' = groups
           ELSE
                LET grp == (g :> [pin_hash |-> hash_password(pin),
                                  creator |-> creator,
                                  members |-> encrypt_data(
                                                json_dumps(initial_members(creator)))])
                           @@ groups
                    o1 == send_json(EmptyOut, c, SystemText(<<"Group '", g, "' created">>))
                    o2 == broadcast_groups_update(o1, grp)
                IN  /\ groups' = grp
                    /\ out' = send_groups_list(o2, c, creator, grp)
    /\ UNCHANGED <<users, messages, clients, group_calls, pc, username>>
    /\ UdpIdle
    /\ LockIdle

\* handle_group_add_user
GroupAddUser(c, g, target_user) ==
    /\ pc[c] = "recv"
    /\ last' = [conn |-> c, frame |-> [type |-> "group_add_user", room_name |-> g,
                                       target_user |-> target_user]]
    /\ LET sender == username[c]
       IN  IF Falsy(g) \/ Falsy(target_user) THEN
                /\ out' = EmptyOut
                /\ groups' = groups
           ELSE IF g \notin DOMAIN groups THEN
                /\ out' = send_json(EmptyOut, c, SystemText(<<"Group not found">>))
                /\ groups' = groups
           ELSE IF ~is_creator(g, sender) THEN
                /\ out' = send_json(EmptyOut, c, SystemText(<<"Only creator can add users">>))
                /\ groups' = groups
           ELSE IF target_user \notin DOMAIN users THEN
                /\ out' = send_json(EmptyOut, c, SystemText(<<"User not found">>))
                /\ groups' = groups
           ELSE IF target_user \in Elems(load_members(groups[g].members)) THEN
                /\ out' = send_json(EmptyOut, c, SystemText(<<"User already in group">>))
                /\ groups' = groups
           ELSE
                LET members == Append(load_members(groups[g].members), target_user)
                    grp == update_members(g, members)
                    o1 == send_json(EmptyOut, c,
                                    SystemText(<<"Added ", target_user, " to ", g>>))
                    o2 == IF target_online(target_user)
                          THEN send_json(
                                 send_groups_list(o1, clients[target_user], target_user, grp),
                                 clients[target_user],
                                 SystemText(<<"You were added to '", g, "'">>))
                          ELSE o1
                IN  /\ groups' = grp
                    /\ out' = broadcast_to_group(o2, grp, g,
                                 SystemGroupMsg(g, <<target_user, " added by creator">>), NONE)
    /\ UNCHANGED <<users, messages, clients, group_calls, pc, username>>
    /\ UdpIdle
    /\ LockIdle

\* handle_group_join
GroupJoin(c, g, pin) ==
    /\ pc[c] = "recv"
    /\ last' = [conn |-> c, frame |-> [type |-> "group_join", room_name |-> g, pin |-> pin]]
    /\ LET name == username[c]
       IN  IF Falsy(g) \/ Falsy(pin) THEN
                /\ out' = EmptyOut
                /\ groups' = groups
           ELSE IF g \notin DOMAIN groups THEN
                /\ out' = send_json(EmptyOut, c, SystemText(<<"Group not found">>))
                /\ groups' = groups
           ELSE IF ~pin_matches(g, pin) THEN
                /\ out' = send_json(EmptyOut, c, SystemText(<<"Incorrect PIN">>))
                /\ groups' = groups
           ELSE IF name \in Elems(load_members(groups[g].members)) THEN
                /\ out' = send_json(EmptyOut, c, SystemText(<<"Already in group">>))
                /\ groups' = groups
           ELSE
                LET members == Append(load_members(groups[g].members), name)
                    grp == update_members(g, members)
                    o1 == send_json(EmptyOut, c, SystemText(<<"Joined '", g, "'">>))
                    o2 == send_groups_list(o1, c, name, grp)
                IN  /\ groups' = grp
                    /\ out' = broadcast_to_group(o2, grp, g,
                                 SystemGroupMsg(g, <<name, " joined">>), NONE)
    /\ UNCHANGED <<users, messages, clients, group_calls, pc, username>>
    /\ UdpIdle
    /\ LockIdle

\* handle_group_leave
GroupLeave(c, g) ==
    /\ pc[c] = "recv"
    /\ last' = [conn |-> c, frame |-> [type |-> "group_leave", room_name |-> g]]
    /\ LET name == username[c]
       IN  IF Falsy(g) \/ g \notin DOMAIN groups THEN
                /\ out' = EmptyOut
                /\ groups' = groups
           ELSE IF name \in Elems(load_members(groups[g].members)) THEN
                LET members == list_remove(load_members(groups[g].members), name)
                    grp == update_members(g, members)
                    o1 == send_json(EmptyOut, c, SystemText(<<"Left '", g, "'">>))
                    o2 == send_groups_list(o1, c, name, grp)
                IN  /\ groups' = grp
                    /\ out' = broadcast_to_group(o2, grp, g,
                                 SystemGroupMsg(g, <<name, " left">>), NONE)
           ELSE
                /\ out' = EmptyOut
                /\ groups' = groups
    /\ UNCHANGED <<users, messages, clients, group_calls, pc, username>>
    /\ UdpIdle
    /\ LockIdle

(***************************************************************************)
(* Group Directory: the membership mutations, statement by statement       *)
(***************************************************************************)

\* An acquire that never blocks.
lock_free_always(c) == TRUE

\* The acquire of a lock that is not re-entrant.
lock_free_not_reentrant(c) == db_lock = NONE

\* self.db_lock (an RLock) can be taken by the handler of socket c: no other
\* thread holds it.
lock_free(c) == db_lock = NONE \/ db_lock = c

\* The checks of handle_group_join, handle_group_leave and
\* handle_group_add_user on the row the SELECT returned (present says whether
\* there was one): ok, or the content of the error text (<<>>: a silent
\* return).
mutation_check(frame, name, present, row) ==
    LET members == load_members(row.members)
        fail(content) == [ok |-> FALSE, content |-> content]
    IN  IF frame.type = "group_join" THEN
            IF ~present THEN fail(<<"Group not found">>)
            ELSE IF hash_password(frame.pin) # row.pin_hash THEN fail(<<"Incorrect PIN">>)
            ELSE IF name \in Elems(members) THEN fail(<<"Already in group">>)
            ELSE [ok |-> TRUE, content |-> <<>>]
        ELSE IF frame.type = "group_leave" THEN
            IF ~present THEN fail(<<>>)
            ELSE IF name \notin Elems(members) THEN fail(<<>>)
            ELSE [ok |-> TRUE, content |-> <<>>]
        ELSE
            IF ~present THEN fail(<<"Group not found">>)
            ELSE IF row.creator # name THEN fail(<<"Only creator can add users">>)
            ELSE IF frame.target_user \notin DOMAIN users THEN fail(<<"User not found">>)
            ELSE IF frame.target_user \in Elems(members)
                 THEN fail(<<"User already in group">>)
            ELSE [ok |-> TRUE, content |-> <<>>]

\* members.append(username), members.remove(username) or
\* members.append(target_user) on the list the handler loaded.
mutation_members(frame, name, members) ==
    IF frame.type = "group_join" THEN Append(members, name)
    ELSE IF frame.type = "group_leave" THEN list_remove(members, name)
    ELSE Append(members, frame.target_user)

\* The sends that follow the commit, inside the lock.
mutation_notify(c, frame, name) ==
    LET g == frame.room_name
    IN  IF frame.type = "group_join" THEN
            broadcast_to_group(
                send_groups_list(
                    send_json(EmptyOut, c, SystemText(<<"Joined '", g, "'">>)),
                    c, name, groups),
                groups, g, SystemGroupMsg(g, <<name, " joined">>), NONE)
        ELSE IF frame.type = "group_leave" THEN
            broadcast_to_group(
                send_groups_list(
                    send_json(EmptyOut, c, SystemText(<<"Left '", g, "'">>)),
                    c, name, groups),
                groups, g, SystemGroupMsg(g, <<name, " left">>), NONE)
        ELSE
            LET t == frame.target_user
                o1 == send_json(EmptyOut, c, SystemText(<<"Added ", t, " to ", g>>))
                o2 == IF target_online(t)
                      THEN send_json(send_groups_list(o1, clients[t], t, groups),
                                     clients[t],
                                     SystemText(<<"You were added to '", g, "'">>))
                      ELSE o1
            IN  broadcast_to_group(o2, groups, g,
                                   SystemGroupMsg(g, <<t, " added by creator">>), NONE)

\* The handler of socket c read a join, leave or add frame with its fields
\* present and reached `with self.db_lock`.
MutationBegin(c, frame) ==
    /\ pc[c] = "recv"
    /\ ~Falsy(frame.room_name)
    /\ frame.type = "group_join" => ~Falsy(frame.pin)
    /\ frame.type = "group_add_user" => ~Falsy(frame.target_user)
    /\ pc' = [pc EXCEPT ![c] = "lock"]
    /\ locals' = [locals EXCEPT ![c] = [frame |-> frame, members |-> <<>>]]
    /\ last' = [conn |-> c, frame |-> frame]
    /\ out' = EmptyOut
    /\ UNCHANGED <<users, groups, messages, clients, group_calls, username, db_lock>>
    /\ UdpIdle

\* with self.db_lock: the handler blocks until no other thread holds it.
LockAcquire(c) ==
    /\ pc[c] = "lock"
    /\ lock_free(c)
    /\ db_lock' = c
    /\ pc' = [pc EXCEPT ![c] = "select"]
    /\ last' = [conn |-> c, frame |-> [type |-> "<acquire>"]]
    /\ out' = EmptyOut
    /\ UNCHANGED <<users, groups, messages, clients, group_calls, username, locals>>
    /\ UdpIdle

\* SELECT ... FROM groups WHERE name=? and the checks on its row: an error
\* reply (or a silent return) leaves the with block; otherwise the handler
\* holds the changed list in its local `members`.
MutationSelect(c) ==
    /\ pc[c] = "select"
    /\ LET frame == locals[c].frame
           g == frame.room_name
           present == g \in DOMAIN groups
           row == IF present THEN groups[g]
                  ELSE [pin_hash |-> NONE, creator |-> NONE, members |-> <<>>]
           res == mutation_check(frame, username[c], present, row)
       IN  IF res.ok THEN
                /\ locals' = [locals EXCEPT ![c].members =
                                 mutation_members(frame, username[c],
                                                  load_members(row.members))]
                /\ pc' = [pc EXCEPT ![c] = "update"]
                /\ out' = EmptyOut
                /\ db_lock' = db_lock
           ELSE
                /\ locals' = [locals EXCEPT ![c] = NoLocal]
                /\ pc' = [pc EXCEPT ![c] = "recv"]
                /\ out' = IF res.content = <<>> THEN EmptyOut
                          ELSE send_json(EmptyOut, c, SystemText(res.content))
                /\ db_lock' = NONE
    /\ last' = [conn |-> c, frame |-> [type |-> "<select>"]]
    /\ UNCHANGED <<users, groups, messages, clients, group_calls, username>>
    /\ UdpIdle

\* UPDATE groups SET members=? WHERE name=? and commit, with the local list.
MutationUpdate(c) ==
    /\ pc[c] = "update"
    /\ groups' = update_members(locals[c].frame.room_name, locals[c].members)
    /\ pc' = [pc EXCEPT ![c] = "notify"]
    /\ last' = [conn |-> c, frame |-> [type |-> "<update>"]]
    /\ out' = EmptyOut
    /\ UNCHANGED <<users, messages, clients, group_calls, username, db_lock, locals>>
    /\ UdpIdle

\* The notifications, and the end of the with block: send_groups_list and
\* broadcast_to_group take self.db_lock again, in the thread that holds it.
MutationNotify(c) ==
    /\ pc[c] = "notify"
    /\ lock_free(c)
    /\ out' = mutation_notify(c, locals[c].frame, username[c])
    /\ db_lock' = NONE
    /\ locals' = [locals EXCEPT ![c] = NoLocal]
    /\ pc' = [pc EXCEPT ![c] = "recv"]
    /\ last' = [conn |-> c, frame |-> [type |-> "<release>"]]
    /\ UNCHANGED <<users, groups, messages, clients, group_calls, username>>
    /\ UdpIdle

(***************************************************************************)
(* Messaging Relay: private messages and history                           *)
(***************************************************************************)

\* LIMIT 50 of send_message_history's query.
HISTORY_LIMIT == 50

\* The most rows the messages table holds in the model.
MaxMessages == 2

\* An exception leaves the dispatch loop of handle_client: the except clause
\* logs it and the finally block runs, as after EOF.
HandlerRaises(c) ==
    /\ clients' = disconnect_registry(username[c])
    /\ out' = disconnect_out(username[c])
    /\ pc' = [pc EXCEPT ![c] = "closed"]

\* INSERT INTO messages raises sqlite3.IntegrityError: sender is NOT NULL.
insert_message_fails(sender) == sender = NONE

\* handle_private_message
handle_private_message(c, to, content) ==
    /\ pc[c] = "recv"
    /\ last' = [conn |-> c, frame |-> [type |-> "private", to |-> to, content |-> content]]
    /\ LET sender == username[c]
       IN  IF Falsy(to) \/ Len(content) = 0 THEN
                /\ out' = EmptyOut
                /\ UNCHANGED <<messages, clients, pc>>
           ELSE IF encrypt_raises(content) \/ insert_message_fails(sender) THEN
                /\ HandlerRaises(c)
                /\ messages' = messages
           ELSE
                /\ messages' = Append(messages,
                                  [sender |-> sender, receiver |-> to,
                                   content |-> encrypt_data(content),
                                   msg_type |-> "text"])
                /\ out' = IF to \in DOMAIN clients
                          THEN send_json(EmptyOut, clients[to],
                                 [type |-> "private", from |-> sender, content |-> content])
                          ELSE EmptyOut
                /\ UNCHANGED <<clients, pc>>
    /\ UNCHANGED <<users, groups, group_calls, username>>
    /\ UdpIdle
    /\ LockIdle

\* A private frame, while the messages table has room in the model.
PrivateMessage(c, to, content) ==
    /\ Len(messages) < MaxMessages
    /\ handle_private_message(c, to, content)

\* The MSG_VOICE_MSG branch calls self.handle_voice_message, a method the
\* class does not define: the attribute lookup raises AttributeError.
VoiceMessage(c, to, content, duration) ==
    /\ pc[c] = "recv"
    /\ last' = [conn |-> c, frame |-> [type |-> "voice_msg", to |-> to,
                                       content |-> content, duration |-> duration]]
    /\ HandlerRaises(c)
    /\ UNCHANGED <<users, groups, messages, group_calls, username>>
    /\ UdpIdle
    /\ LockIdle

\* The types of 1:1 call signalling.
CallTypes == {"call", "call_accept", "call_reject"}

\* The `from` a client may put in a signalling frame itself (NONE: no such
\* field).
FromArgs == {NONE, "bob"}

\* A relay that forwards the frame as received.
tag_sender_verbatim(msg, sender) == msg

\* msg['from'] = sender
tag_sender(msg, sender) == [msg EXCEPT !.from = sender]

\* relay_call_signal
CallSignal(c, t, to, from) ==
    /\ pc[c] = "recv"
    /\ LET msg == [type |-> t, to |-> to, from |-> from]
       IN  /\ last' = [conn |-> c, frame |-> msg]
           /\ out' = IF ~Falsy(to) /\ to \in DOMAIN clients
                     THEN send_json(EmptyOut, clients[to], tag_sender(msg, username[c]))
                     ELSE EmptyOut
    /\ UNCHANGED <<users, groups, messages, clients, group_calls, pc, username>>
    /\ UdpIdle
    /\ LockIdle

\* A WHERE clause that looks at the partner only.
history_rows_of_partner(tbl, name, partner) ==
    SelectSeq(tbl, LAMBDA r : r.sender = partner \/ r.receiver = partner)

\* The rows of table tbl that the WHERE clause of send_message_history
\* selects, in timestamp order (a comparison with NULL selects nothing).
history_rows(tbl, name, partner) ==
    IF name = NONE THEN <<>>
    ELSE SelectSeq(tbl, LAMBDA r :
            \/ r.sender = name /\ r.receiver = partner
            \/ r.sender = partner /\ r.receiver = name)

\* ORDER BY timestamp ASC LIMIT 50: the first HISTORY_LIMIT selected rows.
history_limit(rows) ==
    SubSeq(rows, 1, IF Len(rows) < HISTORY_LIMIT THEN Len(rows) ELSE HISTORY_LIMIT)

\* The `data` list of the history push: each row with its content decrypted.
history_data(tbl, name, partner) ==
    LET rows == history_limit(history_rows(tbl, name, partner))
    IN  [i \in 1..Len(rows) |->
            [sender |-> rows[i].sender,
             content |-> decrypt_data(rows[i].content),
             type |-> rows[i].msg_type]]

\* send_message_history
History(c, partner) ==
    /\ pc[c] = "recv"
    /\ last' = [conn |-> c, frame |-> [type |-> "req_history", with |-> partner]]
    /\ out' = IF Falsy(partner) THEN EmptyOut
              ELSE send_json(EmptyOut, c,
                     [type |-> "history", with |-> partner,
                      data |-> history_data(messages, username[c], partner)])
    /\ UNCHANGED <<users, groups, messages, clients, group_calls, pc, username>>
    /\ UdpIdle
    /\ LockIdle

(***************************************************************************)
(* Group traffic: messages, files, voice notes and call signalling         *)
(***************************************************************************)

\* The file names, call modes and durations a frame carries; NONE and <<>>
\* stand for a frame without the field.
FilenameArgs == {"a.txt", ""}
ModeArgs == {"video", NONE}
DurationArgs == {<<3>>, <<>>}

\* msg.get('mode', 'audio')
get_mode(mode) == IF mode = NONE THEN "audio" ELSE mode

\* msg.get('duration', 0)
get_duration(duration) == IF duration = <<>> THEN 0 ELSE duration[1]

\* The part the four member-only broadcasts share: the message goes to the
\* room if the sender is a member of it.
member_broadcast(sender, g, message) ==
    IF is_group_member(sender, g)
    THEN broadcast_to_group(EmptyOut, groups, g, message, sender)
    ELSE EmptyOut

\* A handle_group_message that also inserts the message into the log.
GroupMessagePersisted(c, g, content) ==
    /\ pc[c] = "recv"
    /\ last' = [conn |-> c, frame |-> [type |-> "group_msg", room_name |-> g,
                                       content |-> content]]
    /\ out' = EmptyOut
    /\ messages' = Append(messages,
                      [sender |-> username[c], receiver |-> g,
                       content |-> content, msg_type |-> "text"])
    /\ UNCHANGED <<users, groups, clients, group_calls, pc, username>>
    /\ UdpIdle
    /\ LockIdle

\* handle_group_message
GroupMessage(c, g, content) ==
    /\ pc[c] = "recv"
    /\ last' = [conn |-> c, frame |-> [type |-> "group_msg", room_name |-> g,
                                       content |-> content]]
    /\ out' = IF Falsy(g) \/ Len(content) = 0 THEN EmptyOut
              ELSE member_broadcast(username[c], g,
                     [type |-> "group_msg", room_name |-> g,
                      from |-> username[c], content |-> content])
    /\ UNCHANGED <<users, groups, messages, clients, group_calls, pc, username>>
    /\ UdpIdle
    /\ LockIdle

\* handle_group_file
GroupFile(c, g, filename, content) ==
    /\ pc[c] = "recv"
    /\ last' = [conn |-> c, frame |-> [type |-> "group_file", room_name |-> g,
                                       filename |-> filename, content |-> content]]
    /\ out' = IF Falsy(g) \/ Falsy(filename) \/ Len(content) = 0 THEN EmptyOut
              ELSE member_broadcast(username[c], g,
                     [type |-> "group_file", room_name |-> g, from |-> username[c],
                      filename |-> filename, content |-> content])
    /\ UNCHANGED <<users, groups, messages, clients, group_calls, pc, username>>
    /\ UdpIdle
    /\ LockIdle

\* handle_group_call
GroupCall(c, g, mode) ==
    /\ pc[c] = "recv"
    /\ last' = [conn |-> c, frame |-> [type |-> "group_call", room_name |-> g,
                                       mode |-> mode]]
    /\ out' = IF Falsy(g) THEN EmptyOut
              ELSE member_broadcast(username[c], g,
                     [type |-> "group_call", room_name |-> g, from |-> username[c],
                      mode |-> get_mode(mode)])
    /\ UNCHANGED <<users, groups, messages, clients, group_calls, pc, username>>
    /\ UdpIdle
    /\ LockIdle

\* A roster insertion without the membership test.
roster_add_always(roster, name) == Append(roster, name)

\* if username not in self.group_calls[group_name]: ...append(username)
roster_add(roster, name) ==
    IF name \in Elems(roster) THEN roster ELSE Append(roster, name)

\* handle_group_call_accept
GroupCallAccept(c, g) ==
    /\ pc[c] = "recv"
    /\ last' = [conn |-> c, frame |-> [type |-> "group_call_accept", room_name |-> g]]
    /\ IF Falsy(g) THEN
            /\ out' = EmptyOut
            /\ group_calls' = group_calls
       ELSE
            LET calls == IF g \in DOMAIN group_calls THEN group_calls
                         ELSE (g :> <<>>) @@ group_calls
            IN  /\ group_calls' =
                      [calls EXCEPT ![g] = roster_add(calls[g], username[c])]
                /\ out' = broadcast_to_group(EmptyOut, groups, g,
                             [type |-> "group_call_accept", room_name |-> g,
                              from |-> username[c]], NONE)
    /\ UNCHANGED <<users, groups, messages, clients, pc, username>>
    /\ UdpIdle
    /\ LockIdle

\* handle_group_voice
GroupVoice(c, g, content, duration) ==
    /\ pc[c] = "recv"
    /\ last' = [conn |-> c, frame |-> [type |-> "group_voice_msg", room_name |-> g,
                                       content |-> content, duration |-> duration]]
    /\ out' = IF Falsy(g) \/ Len(content) = 0 THEN EmptyOut
              ELSE member_broadcast(username[c], g,
                     [type |-> "group_voice_msg", room_name |-> g, from |-> username[c],
                      content |-> content, duration |-> get_duration(duration)])
    /\ UNCHANGED <<users, groups, messages, clients, group_calls, pc, username>>
    /\ UdpIdle
    /\ LockIdle

(***************************************************************************)
(* Media Relay: the UDP audio and video relays                             *)
(***************************************************************************)

\* The names a datagram can carry in the model, and bytes.decode() of the
\* bytes of one of them ("?" stands for every other text).
UdpNames == {"alice", "bob", "bob:x", "team", ""}
decode(bs) ==
    IF \E n \in UdpNames : StrChars(n) = bs
    THEN CHOOSE n \in UdpNames : StrChars(n) = bs
    ELSE "?"

\* data.startswith(prefix)
startswith(data, prefix) ==
    Len(data) >= Len(prefix) /\ SubSeq(data, 1, Len(prefix)) = prefix

\* b'REG:' and the one-byte tags of the two relays.
REG == <<82, 69, 71, 58>>
TagG == <<71>>
TagA == <<65>>
TagH == <<72>>
TagV == <<86>>

\* A username -> address dict: its items in insertion order.
dict_keys(d) == {d[i].name : i \in 1..Len(d)}
dict_get(d, k) == d[CHOOSE i \in 1..Len(d) : d[i].name = k].addr
dict_set(d, k, v) ==
    IF k \in dict_keys(d)
    THEN [i \in 1..Len(d) |-> IF d[i].name = k THEN [name |-> k, addr |-> v] ELSE d[i]]
    ELSE Append(d, [name |-> k, addr |-> v])

\* data.decode().split(':')[1]: the text between the first colon and the
\* second one (or the end).
reg_username(data) ==
    LET colon == IndexFrom(data, 58, Len(REG) + 1)
    IN  decode(SubSeq(data, Len(REG) + 1,
                      IF colon = 0 THEN Len(data) ELSE colon - 1))

\* next((u for u, a in table.items() if a == addr), None)
udp_sender(table, addr) ==
    IF \E i \in 1..Len(table) : table[i].addr = addr
    THEN table[CHOOSE i \in 1..Len(table) :
                  /\ table[i].addr = addr
                  /\ \A j \in 1..(i - 1) : table[j].addr # addr].name
    ELSE NONE

\* A forwarding loop that does not skip the sender.
RECURSIVE udp_forward_all(_, _, _, _, _)
udp_forward_all(r, table, roster, sender, payload) ==
    IF Len(roster) = 0 THEN <<>>
    ELSE (IF Head(roster) \in dict_keys(table)
          THEN <<[relay |-> r, addr |-> dict_get(table, Head(roster)),
                  payload |-> payload]>>
          ELSE <<>>)
         \o udp_forward_all(r, table, Tail(roster), sender, payload)

\* for participant in roster: if participant != sender and participant in
\* table: sendto(payload, table[participant])
RECURSIVE udp_forward(_, _, _, _, _)
udp_forward(r, table, roster, sender, payload) ==
    IF Len(roster) = 0 THEN <<>>
    ELSE (IF Head(roster) # sender /\ Head(roster) \in dict_keys(table)
          THEN <<[relay |-> r, addr |-> dict_get(table, Head(roster)),
                  payload |-> payload]>>
          ELSE <<>>)
         \o udp_forward(r, table, Tail(roster), sender, payload)

\* One turn of a relay loop on datagram data from address addr: the table
\* after it and the datagrams sent.
udp_relay(r, table, group_tag, private_tag, data, addr) ==
    LET null_idx == IndexFrom(data, 0, 2)
        name == decode(SubSeq(data, 2, null_idx - 1))
        payload == SubSeq(data, null_idx + 1, Len(data))
    IN  IF startswith(data, REG) THEN
            [table |-> dict_set(table, reg_username(data), addr), sent |-> <<>>]
        ELSE IF startswith(data, group_tag) THEN
            IF null_idx # 0 /\ name \in DOMAIN group_calls
                            /\ ~Falsy(udp_sender(table, addr))
            THEN [table |-> table,
                  sent |-> udp_forward(r, table, group_calls[name],
                                       udp_sender(table, addr), payload)]
            ELSE [table |-> table, sent |-> <<>>]
        ELSE IF startswith(data, private_tag) THEN
            IF null_idx # 0 /\ name \in dict_keys(table)
            THEN [table |-> table,
                  sent |-> <<[relay |-> r, addr |-> dict_get(table, name),
                              payload |-> payload]>>]
            ELSE [table |-> table, sent |-> <<>>]
        ELSE [table |-> table, sent |-> <<>>]

\* A step of a relay thread: the TCP handlers do nothing in it.
TcpIdle(r, data, addr) ==
    /\ last' = [conn |-> NONE,
                frame |-> [type |-> "<datagram>", relay |-> r, data |-> data,
                           addr |-> addr]]
    /\ out' = EmptyOut
    /\ UNCHANGED <<users, groups, messages, clients, group_calls, pc, username>>
    /\ LockIdle

\* udp_audio_relay
UdpAudioRelay(data, addr) ==
    /\ LET res == udp_relay("audio", udp_audio_clients, TagG, TagA, data, addr)
       IN  /\ udp_audio_clients' = res.table
           /\ udp_sent' = res.sent
    /\ UNCHANGED udp_video_clients
    /\ TcpIdle("audio", data, addr)

\* udp_video_relay
UdpVideoRelay(data, addr) ==
    /\ LET res == udp_relay("video", udp_video_clients, TagH, TagV, data, addr)
       IN  /\ udp_video_clients' = res.table
           /\ udp_sent' = res.sent
    /\ UNCHANGED udp_audio_clients
    /\ TcpIdle("video", data, addr)

(***************************************************************************)
(* Specifications                                                          *)
(***************************************************************************)

Next ==
    \/ \E c \in Conns : Accept(c)
    \/ \E c \in Conns, u \in UserArgs, p \in PasswordArgs : Signup(c, u, p)
    \/ \E c \in Conns, u \in UserArgs, p \in PasswordArgs : LoginCheck(c, u, p)
    \/ \E c \in Conns : LoginRegister(c)
    \/ \E c \in Conns : Disconnect(c)
    \/ \E c \in Conns, frame \in WireFrames : Receive(c, frame)

\* Accounts, sessions and the Connection Registry, from an empty database.
Spec == Init /\ [][Next]_vars

\* The database after alice and bob signed up with password pw1.
InitSignedUp ==
    /\ users = [u \in Users |-> hash_password("pw1")]
    /\ groups = << >>
    /\ messages = << >>
    /\ clients = << >>
    /\ group_calls = << >>
    /\ pc = [c \in Conns |-> "closed"]
    /\ username = [c \in Conns |-> NONE]
    /\ last = [conn |-> NONE, frame |-> [type |-> "<start>"]]
    /\ out = EmptyOut
    /\ udp_audio_clients = <<>>
    /\ udp_video_clients = <<>>
    /\ udp_sent = <<>>
    /\ db_lock = NONE
    /\ locals = NoLocals

\* In the group and messaging specifications each socket logs in as one
\* identity only: c1 as alice, c2 as bob.
SeatUser(c) == IF c = "c1" THEN "alice" ELSE "bob"

\* The PINs a group_create frame carries there.
CreatePinArgs == {"1234", ""}

NextGroups ==
    \/ \E c \in Conns : Accept(c)
    \/ \E c \in Conns, p \in Passwords : LoginCheck(c, SeatUser(c), p)
    \/ \E c \in Conns : LoginRegister(c)
    \/ \E c \in Conns : Disconnect(c)
    \/ \E c \in Conns, g \in RoomArgs, pin \in CreatePinArgs : GroupCreate(c, g, pin)
    \/ \E c \in Conns, g \in RoomArgs, t \in TargetArgs : GroupAddUser(c, g, t)
    \/ \E c \in Conns, g \in RoomArgs, pin \in PinArgs : GroupJoin(c, g, pin)
    \/ \E c \in Conns, g \in RoomArgs : GroupLeave(c, g)

\* The Group Directory, with sessions coming and going.
SpecGroups == InitSignedUp /\ [][NextGroups]_vars

NextMessages ==
    \/ \E c \in Conns : Accept(c)
    \/ \E c \in Conns, p \in Passwords : LoginCheck(c, SeatUser(c), p)
    \/ \E c \in Conns : LoginRegister(c)
    \/ \E c \in Conns : Disconnect(c)
    \/ \E c \in Conns, to \in UserArgs, content \in ContentArgs :
          PrivateMessage(c, to, content)
    \/ \E c \in Conns, partner \in UserArgs : History(c, partner)
    \/ \E c \in Conns, to \in Users : VoiceMessage(c, to, TextHi, 3)
    \/ \E c \in Conns, t \in CallTypes, to \in UserArgs, from \in FromArgs :
          CallSignal(c, t, to, from)

\* Private messages and history, with sessions coming and going.
SpecMessages == InitSignedUp /\ [][NextMessages]_vars

\* The database after alice and bob signed up and alice sent bob "hi" in an
\* earlier session.
InitTraffic ==
    /\ users = [u \in Users |-> hash_password("pw1")]
    /\ groups = << >>
    /\ messages = <<[sender |-> "alice", receiver |-> "bob",
                     content |-> encrypt_data(TextHi), msg_type |-> "text"]>>
    /\ clients = << >>
    /\ group_calls = << >>
    /\ pc = [c \in Conns |-> "closed"]
    /\ username = [c \in Conns |-> NONE]
    /\ last = [conn |-> NONE, frame |-> [type |-> "<start>"]]
    /\ out = EmptyOut
    /\ udp_audio_clients = <<>>
    /\ udp_video_clients = <<>>
    /\ udp_sent = <<>>
    /\ db_lock = NONE
    /\ locals = NoLocals

\* The contents a group frame carries.
TrafficContentArgs == {TextHi, <<>>}

NextTraffic ==
    \/ \E c \in Conns : Accept(c)
    \/ \E c \in Conns : LoginCheck(c, SeatUser(c), "pw1")
    \/ \E c \in Conns : LoginRegister(c)
    \/ \E c \in Conns : Disconnect(c)
    \/ GroupCreate("c1", "team", "1234")
    \/ GroupJoin("c2", "team", "1234")
    \/ \E c \in Conns, g \in RoomArgs, content \in TrafficContentArgs :
          GroupMessage(c, g, content)
    \/ \E c \in Conns, f \in FilenameArgs : GroupFile(c, "team", f, TextHi)
    \/ \E c \in Conns, mode \in ModeArgs : GroupCall(c, "team", mode)
    \/ \E g \in RoomArgs : GroupCallAccept("c1", g)
    \/ \E c \in Conns, d \in DurationArgs : GroupVoice(c, "team", TextHi, d)
    \/ \E c \in Conns : \E partner \in Users \ {SeatUser(c)} : History(c, partner)

\* Group traffic among sessions that come and go; the room is created on c1
\* and joined on c2, and calls are accepted on c1.
SpecTraffic == InitTraffic /\ [][NextTraffic]_vars

\* The most rows the messages table holds in the long-conversation
\* specification: one more than the history query's LIMIT.
MaxHistory == 51

\* alice is logged in on c1 and bob on c2; nothing has been sent yet.
InitHistory ==
    /\ users = [u \in Users |-> hash_password("pw1")]
    /\ groups = << >>
    /\ messages = << >>
    /\ clients = [u \in Users |-> IF u = "alice" THEN "c1" ELSE "c2"]
    /\ group_calls = << >>
    /\ pc = [c \in Conns |-> "recv"]
    /\ username = [c \in Conns |-> SeatUser(c)]
    /\ last = [conn |-> NONE, frame |-> [type |-> "<start>"]]
    /\ out = EmptyOut
    /\ udp_audio_clients = <<>>
    /\ udp_video_clients = <<>>
    /\ udp_sent = <<>>
    /\ db_lock = NONE
    /\ locals = NoLocals

\* alice writes to bob: "hi" any number of times and "h\'e" at most once.
LongPrivateMessage(content) ==
    /\ Len(messages) < MaxHistory
    /\ content = TextLatin =>
          \A i \in 1..Len(messages) : messages[i].content # encrypt_data(TextLatin)
    /\ handle_private_message("c1", "bob", content)

NextHistory ==
    \/ \E content \in {TextHi, TextLatin} : LongPrivateMessage(content)
    \/ \E c \in Conns : \E partner \in Users \ {SeatUser(c)} : History(c, partner)

\* A long conversation between two logged-in identities.
SpecHistory == InitHistory /\ [][NextHistory]_vars
\* alice is logged in on c1 and bob on c2; alice created room "team" and bob
\* joined it; no call has been accepted and no endpoint registered.
InitCalls ==
    /\ users = [u \in Users |-> hash_password("pw1")]
    /\ groups = ("team" :> [pin_hash |-> hash_password("1234"),
                            creator |-> "alice",
                            members |-> encrypt_data(json_dumps(<<"alice", "bob">>))])
    /\ messages = << >>
    /\ clients = [u \in Users |-> IF u = "alice" THEN "c1" ELSE "c2"]
    /\ group_calls = << >>
    /\ pc = [c \in Conns |-> "recv"]
    /\ username = [c \in Conns |-> SeatUser(c)]
    /\ last = [conn |-> NONE, frame |-> [type |-> "<start>"]]
    /\ out = EmptyOut
    /\ udp_audio_clients = <<>>
    /\ udp_video_clients = <<>>
    /\ udp_sent = <<>>
    /\ db_lock = NONE
    /\ locals = NoLocals

\* The source addresses of datagrams, and a media payload (it holds a NUL).
Addrs == {"x", "y"}
Payload == <<7, 0, 9>>

\* REG:<name>, and <tag><name>\0<payload>.
RegDatagram(name) == REG \o StrChars(name)
Tagged(tag, name) == tag \o StrChars(name) \o <<0>> \o Payload

\* The datagrams the audio relay receives, from either address:
\* registrations of alice, bob and "bob:x", private audio for each of them,
\* group audio for room "team" and for a room that has no roster, a tagged
\* datagram without a NUL, and a datagram with a video tag.
AudioDatagrams ==
    {RegDatagram(n) : n \in {"alice", "bob", "bob:x"}}
    \cup {Tagged(TagA, n) : n \in {"alice", "bob", "bob:x"}}
    \cup {Tagged(TagG, "team"), Tagged(TagG, "alice"), TagA \o StrChars("alice"),
          Tagged(TagV, "alice")}

\* The datagrams the video relay receives, all from one address:
\* registrations of alice and bob, private video for each, group video for
\* room "team", and a datagram with an audio tag.
VideoDatagrams ==
    {RegDatagram(n) : n \in {"alice", "bob"}}
    \cup {Tagged(TagV, n) : n \in {"alice", "bob"}}
    \cup {Tagged(TagH, "team"), Tagged(TagG, "team")}

NextUdp ==
    \/ \E c \in Conns : GroupCallAccept(c, "team")
    \/ \E data \in AudioDatagrams, addr \in Addrs : UdpAudioRelay(data, addr)
    \/ \E data \in VideoDatagrams : UdpVideoRelay(data, "x")

\* The two media relays during a group call.
SpecUdp == InitCalls /\ [][NextUdp]_vars

\* The other seated identity.
Peer(c) == IF c = "c1" THEN "bob" ELSE "alice"

\* Calls next to the TCP events that end them: accepts of the call in room
\* "team", group_leave, call_reject, disconnects, and the registrations and
\* media of the two relays.
NextCalls ==
    \/ \E c \in Conns : GroupCallAccept(c, "team")
    \/ \E c \in Conns : GroupLeave(c, "team")
    \/ \E c \in Conns : CallSignal(c, "call_reject", Peer(c), NONE)
    \/ \E c \in Conns : Disconnect(c)
    \/ \E data \in {RegDatagram("alice"), RegDatagram("bob"), Tagged(TagA, "alice"),
                     Tagged(TagG, "team")}, addr \in Addrs :
          UdpAudioRelay(data, addr)
    \/ \E data \in {RegDatagram("alice"), Tagged(TagH, "team")} :
          UdpVideoRelay(data, "x")

SpecCalls == InitCalls /\ [][NextCalls]_vars

\* Sessions that come and go while a disconnecting handler is inside its
\* presence broadcast.
NextRace ==
    \/ \E c \in Conns : Accept(c)
    \/ \E c \in Conns : LoginCheck(c, SeatUser(c), "pw1")
    \/ \E c \in Conns : LoginRegister(c)
    \/ \E c \in Conns : Disconnect(c)
    \/ \E c \in Conns : FinallyBegin(c)
    \/ \E c \in Conns : BroadcastNext(c)

SpecRace == InitCalls /\ [][NextRace]_vars

\* The membership mutations of room "team" the two connections request.
MutationFrames(c) ==
    {[type |-> "group_leave", room_name |-> "team"],
     [type |-> "group_join", room_name |-> "team", pin |-> "1234"],
     [type |-> "group_add_user", room_name |-> "team", target_user |-> Peer(c)]}

NextLock ==
    \/ \E c \in Conns : \E frame \in MutationFrames(c) : MutationBegin(c, frame)
    \/ \E c \in Conns : LockAcquire(c)
    \/ \E c \in Conns : MutationSelect(c)
    \/ \E c \in Conns : MutationUpdate(c)
    \/ \E c \in Conns : MutationNotify(c)

\* Membership mutations of one room by two handler threads, statement by
\* statement.
SpecLock == InitCalls /\ [][NextLock]_vars

\* The thread of a handler inside the with block runs its next statement:
\* the step of MutationSelect(c), MutationUpdate(c) or MutationNotify(c),
\* seen on the handler's position.  The notifications wait for the nested
\* acquire of self.db_lock by send_groups_list and broadcast_to_group.
Proceeds(c) ==
    \/ /\ pc[c] = "select"
       /\ pc' \in {[pc EXCEPT ![c] = "update"], [pc EXCEPT ![c] = "recv"]}
    \/ /\ pc[c] = "update"
       /\ pc' = [pc EXCEPT ![c] = "notify"]
    \/ /\ pc[c] = "notify"
       /\ lock_free(c)
       /\ pc' = [pc EXCEPT ![c] = "recv"]

\* A handler thread inside the with block keeps running, and a thread
\* blocked on the lock gets it if the lock is released again and again;
\* clients need not send frames.
LockFairness ==
    \A c \in Conns :
        /\ SF_pc(LockAcquire(c))
        /\ WF_pc(Proceeds(c))

SpecLockFair == SpecLock /\ LockFairness

(***************************************************************************)
(* Claims about sessions and the Connection Registry (under Spec)          *)
(***************************************************************************)

\* The step just taken handled a frame of type t on socket c.
Handled(c, t) == last'.conn = c /\ last'.frame.type = t

\* Only socket c was sent anything by the step, and it was sent exactly ms.
OnlyReply(c, ms) ==
    /\ out'[c] = ms
    /\ \A d \in Conns \ {c} : out'[d] = <<>>

\* The registry maps identities to sockets.
RegistryTyped ==
    /\ DOMAIN clients \subseteq Users
    /\ \A u \in DOMAIN clients : clients[u] \in Conns

\* What a login frame for an identity that has a registry entry leaves alone:
\* the registry, the registered socket, and the requesting handler, which goes
\* back to reading frames without registering.
LoginRejectedFrame(c, u) ==
    /\ RegistryTyped
    /\ clients' = clients
    /\ pc'[clients[u]] = pc[clients[u]]
    /\ pc'[c] = "recv"

\* C1 (as amended): the registry maps each identity to one socket; a login
\* for an identity that has a registry entry when handle_login tests the
\* registry is answered with auth_result success=false, 'Already logged in'
\* when the password is the stored one and 'Invalid credentials' when it is
\* not, and the registry entry and its socket are left unchanged.
C1_LoginWhileRegisteredRejected ==
    [][\A c \in Conns :
         (Handled(c, "login") /\ last'.frame.username \in DOMAIN clients) =>
            LET u == last'.frame.username
                stored == users[u] = hash_password(last'.frame.password)
            IN  /\ LoginRejectedFrame(c, u)
                /\ OnlyReply(c, <<AuthResult(FALSE,
                                    IF stored THEN "Already logged in"
                                    ELSE "Invalid credentials")>>)]_vars

\* C1 as stated: every login for an identity that has a registry entry is
\* answered 'Already logged in'.
C1_AsStated ==
    [][\A c \in Conns :
         (Handled(c, "login") /\ last'.frame.username \in DOMAIN clients) =>
            /\ LoginRejectedFrame(c, last'.frame.username)
            /\ OnlyReply(c, <<AuthResult(FALSE, "Already logged in")>>)]_vars

\* C1's case: a second socket's login for a registered identity was answered
\* 'Already logged in'.
C1_Witness ==
    /\ last.frame.type = "login"
    /\ last.frame.username \in DOMAIN clients
    /\ clients[last.frame.username] # last.conn
    /\ pc[clients[last.frame.username]] = "recv"
    /\ out[last.conn] = <<AuthResult(FALSE, "Already logged in")>>

\* The sockets whose handler holds identity u: it received auth_result
\* success=true for u and has not ended.
Holders(u) == {c \in Conns : pc[c] # "closed" /\ username[c] = u}

\* C2: of the connections that log in with the same valid credentials, under
\* every interleaving at most one is told success and becomes the identity's
\* session.
C2_AtMostOneLoginSucceeds ==
    \A u \in Users : Cardinality(Holders(u)) <= 1

\* The sockets the other sessions are on once socket c's entries are gone.
RemainingSockets(c) ==
    {clients[v] : v \in {w \in DOMAIN clients : clients[w] # c}} \ {c}

\* C3: when a connection's handler terminates, every identity registered
\* to that connection has no registry entry afterwards, and a presence list
\* is sent to each remaining session.
C3_DisconnectReleasesRegistry ==
    [][\A c \in Conns :
         (pc[c] = "recv" /\ pc'[c] = "closed") =>
            /\ \A u \in DOMAIN clients : clients[u] = c => u \notin DOMAIN clients'
            /\ (\E u \in DOMAIN clients : clients[u] = c) =>
                  \A d \in RemainingSockets(c) :
                     pc[d] # "closed" =>
                        /\ Len(out'[d]) >= 1
                        /\ out'[d][1].type = "list"]_vars
(***************************************************************************)
(* Claims about the Group Directory (under SpecGroups)                     *)
(***************************************************************************)

\* The decoded membership list of group g in the groups table grp.
Members(grp, g) == load_members(grp[g].members)

\* The groups table after the step differs from the one before only in the
\* membership list of g, which now decodes to list.
OnlyMembersChanged(g, list) ==
    /\ DOMAIN groups' = DOMAIN groups
    /\ \A h \in DOMAIN groups \ {g} : groups'[h] = groups[h]
    /\ groups'[g].pin_hash = groups[g].pin_hash
    /\ groups'[g].creator = groups[g].creator
    /\ Members(groups', g) = list

\* Message i of what the step sent to socket d is the system notice text.
IsNotice(d, i, text) ==
    /\ i <= Len(out'[d])
    /\ out'[d][i].type = "text"
    /\ out'[d][i] = SystemText(text)

\* The iff of C4 and the effect of a successful join.
JoinEffect(c, g, pin) ==
    LET old == Members(groups, g)
        ok == hash_password(pin) = groups[g].pin_hash /\ username[c] \notin Elems(old)
    IN  /\ ok => /\ OnlyMembersChanged(g, Append(old, username[c]))
                 /\ IsNotice(c, 1, <<"Joined '", g, "'">>)
        /\ ~ok => groups' = groups

\* C4 (as amended): join on an existing group appends U to the persisted
\* membership iff the PIN's hash matches the stored hash and U is not yet a
\* member; a wrong non-empty PIN, or an unknown group named with a
\* non-empty PIN, returns one error text to the requester only; a join with
\* an empty PIN or room name is dropped without a reply; in all those cases
\* the membership of every group is unchanged.
C4_JoinIffPinMatchesAndNotMember ==
    [][\A c \in Conns :
         Handled(c, "group_join") =>
            LET g == last'.frame.room_name
                pin == last'.frame.pin
            IN  IF g \in DOMAIN groups THEN
                    /\ JoinEffect(c, g, pin)
                    /\ (pin # "" /\ hash_password(pin) # groups[g].pin_hash) =>
                          OnlyReply(c, <<SystemText(<<"Incorrect PIN">>)>>)
                    /\ pin = "" => OnlyReply(c, <<>>)
                ELSE
                    /\ groups' = groups
                    /\ (g # "" /\ pin # "") =>
                          OnlyReply(c, <<SystemText(<<"Group not found">>)>>)
                    /\ (g = "" \/ pin = "") => OnlyReply(c, <<>>)]_vars

\* C4 as stated: on an existing group the join succeeds iff the PIN matches
\* and U is no member, and every wrong PIN returns an error text; an unknown
\* group returns an error text.
C4_AsStated ==
    [][\A c \in Conns :
         Handled(c, "group_join") =>
            LET g == last'.frame.room_name
                pin == last'.frame.pin
            IN  IF g \in DOMAIN groups THEN
                    /\ JoinEffect(c, g, pin)
                    /\ hash_password(pin) # groups[g].pin_hash =>
                          /\ Len(out'[c]) = 1
                          /\ out'[c][1].type = "text"
                ELSE
                    /\ groups' = groups
                    /\ (g # "" /\ pin # "") =>
                          /\ Len(out'[c]) = 1
                          /\ out'[c][1].type = "text"]_vars

\* C4's case: a logged-in identity joined an existing group with the right
\* PIN and is now its second member.
C4_Witness ==
    /\ last.frame.type = "group_join"
    /\ last.frame.room_name \in DOMAIN groups
    /\ username[last.conn] # NONE
    /\ Members(groups, last.frame.room_name)
         = <<groups[last.frame.room_name].creator, username[last.conn]>>
    /\ Len(out[last.conn]) >= 1
    /\ out[last.conn][1] = SystemText(<<"Joined '", last.frame.room_name, "'">>)

\* The groups table after the step is the one before plus group g, created
\* by identity creator with PIN pin and membership [creator].
Created(g, pin, creator) ==
    /\ DOMAIN groups' = DOMAIN groups \cup {g}
    /\ \A h \in DOMAIN groups : groups'[h] = groups[h]
    /\ groups'[g].creator = creator
    /\ groups'[g].pin_hash = hash_password(pin)
    /\ Members(groups', g) = <<creator>>

\* C5 (as amended): group_create with a non-empty name and a non-empty PIN,
\* from a connection whose handler holds identity C, for a name not yet in
\* the directory, stores a group whose creator is C and whose membership is
\* exactly [C]; with an empty name or PIN, or from a connection that holds no
\* identity, nothing is stored.
C5_CreateStoresCreatorAsOnlyMember ==
    [][\A c \in Conns :
         (Handled(c, "group_create") /\ last'.frame.room_name \notin DOMAIN groups) =>
            LET g == last'.frame.room_name
                pin == last'.frame.pin
            IN  IF g # "" /\ pin # "" /\ username[c] # NONE
                THEN Created(g, pin, username[c])
                ELSE groups' = groups]_vars

\* C5 as stated: group_create by an identity C for a name not yet in the
\* directory stores the group, whatever the PIN.
C5_AsStated ==
    [][\A c \in Conns :
         (/\ Handled(c, "group_create")
          /\ last'.frame.room_name \in Rooms \ DOMAIN groups
          /\ username[c] # NONE) =>
            Created(last'.frame.room_name, last'.frame.pin, username[c])]_vars

\* C5's case: a group was just created and its creator is its only member.
C5_Witness ==
    /\ last.frame.type = "group_create"
    /\ last.frame.room_name \in DOMAIN groups
    /\ groups[last.frame.room_name].creator = username[last.conn]
    /\ Members(groups, last.frame.room_name) = <<username[last.conn]>>
    /\ Len(out[last.conn]) >= 1
    /\ out[last.conn][1] = SystemText(<<"Group '", last.frame.room_name, "' created">>)

\* C6 (as amended): group_create for a name that already exists leaves the
\* existing group's PIN hash, creator and membership unchanged and sends the
\* requester one notice: 'Group already exists' when the PIN is non-empty,
\* 'Invalid group data' when it is empty.
C6_DuplicateCreateRejected ==
    [][\A c \in Conns :
         (Handled(c, "group_create") /\ last'.frame.room_name \in DOMAIN groups) =>
            /\ groups' = groups
            /\ OnlyReply(c, <<SystemText(IF last'.frame.pin = ""
                                         THEN <<"Invalid group data">>
                                         ELSE <<"Group already exists">>)>>)]_vars

\* C6 as stated: every group_create for an existing name is answered
\* 'Group already exists'.
C6_AsStated ==
    [][\A c \in Conns :
         (Handled(c, "group_create") /\ last'.frame.room_name \in DOMAIN groups) =>
            /\ groups' = groups
            /\ OnlyReply(c, <<SystemText(<<"Group already exists">>)>>)]_vars

\* C6's case: a logged-in identity other than the creator asked to create an
\* existing group with another PIN and was told it exists.
C6_Witness ==
    /\ last.frame.type = "group_create"
    /\ last.frame.room_name \in DOMAIN groups
    /\ username[last.conn] # NONE
    /\ groups[last.frame.room_name].creator # username[last.conn]
    /\ out[last.conn] = <<SystemText(<<"Group already exists">>)>>

\* A group_add_user frame (g, t) from sender that the server must accept.
AddAllowed(g, t, sender) ==
    /\ g \in DOMAIN groups
    /\ groups[g].creator = sender
    /\ t \in DOMAIN users
    /\ t \notin Elems(Members(groups, g))

\* C7: a group_add_user request whose requester is not the stored creator,
\* whose target is not signed up, or whose target is already a member, is
\* rejected: the membership of every group is unchanged, no session other
\* than the requester is sent anything, and the requester is sent at most
\* one notice, which is not the success notice.
C7_AddUserRejected ==
    [][\A c \in Conns :
         (/\ Handled(c, "group_add_user")
          /\ ~AddAllowed(last'.frame.room_name, last'.frame.target_user, username[c])) =>
            /\ groups' = groups
            /\ \A d \in Conns \ {c} : out'[d] = <<>>
            /\ Len(out'[c]) <= 1
            /\ Len(out'[c]) = 1 =>
                  /\ out'[c][1].type = "text"
                  /\ out'[c][1].content[1] # "Added "]_vars

\* C7's case: a logged-in member that is not the creator asked to add a
\* signed-up non-member and was refused.
C7_Witness ==
    /\ last.frame.type = "group_add_user"
    /\ last.frame.room_name \in DOMAIN groups
    /\ username[last.conn] # NONE
    /\ groups[last.frame.room_name].creator # username[last.conn]
    /\ last.frame.target_user \in DOMAIN users
    /\ last.frame.target_user \notin Elems(Members(groups, last.frame.room_name))
    /\ out[last.conn] = <<SystemText(<<"Only creator can add users">>)>>

\* Some message the step sent to socket d is a my_groups_list that lists
\* group g.
SentMyGroupsWith(d, g) ==
    \E i \in 1..Len(out'[d]) :
        /\ out'[d][i].type = "my_groups_list"
        /\ \E e \in out'[d][i].groups : e.name = g

\* Some message the step sent to socket d is the notice text.
SentNotice(d, text) == \E i \in 1..Len(out'[d]) : IsNotice(d, i, text)

\* The my_groups_list of identity name over the groups table grp.
MyGroups(grp, name) ==
    {[name |-> g, creator |-> grp[g].creator] :
        g \in {h \in DOMAIN grp : name \in Elems(Members(grp, h))}}

\* C8 (as amended): a group_add_user from the stored creator for a signed-up
\* identity T that is not yet a member appends T to the membership; if T has
\* a registry entry with an open connection, that connection is sent a
\* my_groups_list listing the group and the notice that T was added; if T
\* has no registry entry, no notice is sent to T; and the my_groups_list
\* sent to an identity when it logs in lists exactly the groups it is a
\* member of.
C8_AddUserAppendsAndNotifies ==
    [][\A c \in Conns :
         /\ (/\ Handled(c, "group_add_user")
             /\ AddAllowed(last'.frame.room_name, last'.frame.target_user, username[c])) =>
               LET g == last'.frame.room_name
                   t == last'.frame.target_user
               IN  /\ OnlyMembersChanged(g, Append(Members(groups, g), t))
                   /\ IsNotice(c, 1, <<"Added ", t, " to ", g>>)
                   /\ (t \in DOMAIN clients /\ pc[clients[t]] # "closed") =>
                         /\ SentMyGroupsWith(clients[t], g)
                         /\ SentNotice(clients[t], <<"You were added to '", g, "'">>)
                   /\ t \notin DOMAIN clients =>
                         \A d \in Conns : ~SentNotice(d, <<"You were added to '", g, "'">>)
         /\ Handled(c, "<register>") =>
               /\ Len(out'[c]) >= 1
               /\ out'[c][Len(out'[c])] =
                     [type |-> "my_groups_list", groups |-> MyGroups(groups, username[c])]]_vars

\* C8 as stated: after every such add, T receives the notice that it was
\* added.
C8_AsStated ==
    [][\A c \in Conns :
         (/\ Handled(c, "group_add_user")
          /\ AddAllowed(last'.frame.room_name, last'.frame.target_user, username[c])) =>
            /\ OnlyMembersChanged(last'.frame.room_name,
                  Append(Members(groups, last'.frame.room_name), last'.frame.target_user))
            /\ \E d \in Conns :
                  SentNotice(d, <<"You were added to '", last'.frame.room_name, "'">>)]_vars

\* C8's case: the creator added a signed-up identity that has a session on
\* another socket, and that socket was sent the list and the notice.
C8_Witness ==
    /\ last.frame.type = "group_add_user"
    /\ last.frame.room_name \in DOMAIN groups
    /\ groups[last.frame.room_name].creator = username[last.conn]
    /\ last.frame.target_user \in DOMAIN clients
    /\ clients[last.frame.target_user] # last.conn
    /\ last.frame.target_user \in Elems(Members(groups, last.frame.room_name))
    /\ Len(out[clients[last.frame.target_user]]) = 4
    /\ out[clients[last.frame.target_user]][3]
         = SystemText(<<"You were added to '", last.frame.room_name, "'">>)

\* Nothing but `last` and `out` changes in the step.
StateUnchanged ==
    UNCHANGED <<users, groups, messages, clients, group_calls, pc, username>>

\* C9: group_leave by U removes U from the persisted membership of the group
\* when U is a member (the creator included); otherwise no state changes and
\* nothing is sent to anyone.
C9_LeaveRemovesMemberElseNothing ==
    [][\A c \in Conns :
         Handled(c, "group_leave") =>
            LET g == last'.frame.room_name
                U == username[c]
            IN  IF g \in DOMAIN groups /\ U \in Elems(Members(groups, g))
                THEN /\ U \notin Elems(Members(groups', g))
                     /\ OnlyMembersChanged(g,
                           SelectSeq(Members(groups, g), LAMBDA m : m # U))
                ELSE /\ StateUnchanged
                     /\ out' = EmptyOut]_vars

\* C9's case: the creator left its own group.
C9_Witness ==
    /\ last.frame.type = "group_leave"
    /\ last.frame.room_name \in DOMAIN groups
    /\ username[last.conn] = groups[last.frame.room_name].creator
    /\ username[last.conn] \notin Elems(Members(groups, last.frame.room_name))
    /\ Len(out[last.conn]) >= 1
    /\ out[last.conn][1] = SystemText(<<"Left '", last.frame.room_name, "'">>)
\* The frame handled on socket c is a login with bad credentials.
BadCredentials(c) ==
    /\ Handled(c, "login")
    /\ \/ last'.frame.username \notin DOMAIN users
       \/ users[last'.frame.username] # hash_password(last'.frame.password)

\* The frame handled on socket c is a signup for an existing identity.
DuplicateSignup(c) ==
    /\ Handled(c, "signup")
    /\ last'.frame.username \in DOMAIN users
    /\ last'.frame.password # ""

\* The frame handled on socket c is a group_join that fails: group not
\* found, wrong PIN, or already a member.
JoinError(c) ==
    /\ Handled(c, "group_join")
    /\ last'.frame.room_name # ""
    /\ last'.frame.pin # ""
    /\ \/ last'.frame.room_name \notin DOMAIN groups
       \/ hash_password(last'.frame.pin) # groups[last'.frame.room_name].pin_hash
       \/ username[c] \in Elems(Members(groups, last'.frame.room_name))

\* The frame handled on socket c is a group_add_user that fails: group not
\* found, not the creator, target unknown, or target already a member.
AddUserError(c) ==
    /\ Handled(c, "group_add_user")
    /\ last'.frame.room_name # ""
    /\ last'.frame.target_user # ""
    /\ \/ last'.frame.room_name \notin DOMAIN groups
       \/ groups[last'.frame.room_name].creator # username[c]
       \/ last'.frame.target_user \notin DOMAIN users
       \/ last'.frame.target_user \in Elems(Members(groups, last'.frame.room_name))

\* One failure result or SYSTEM text went to socket c and nothing to any
\* other socket.
OneErrorReply(c) ==
    /\ Len(out'[c]) = 1
    /\ \/ out'[c][1].type = "text" /\ out'[c][1].from = "SYSTEM"
       \/ out'[c][1].type = "auth_result" /\ out'[c][1].success = FALSE
    /\ \A d \in Conns \ {c} : out'[d] = <<>>

\* Socket c stays open, its handler keeps its identity, and the registry and
\* the tables are as before.
SessionIntact(c) ==
    /\ pc'[c] = "recv"
    /\ username'[c] = username[c]
    /\ clients' = clients
    /\ UNCHANGED <<users, groups, messages, group_calls>>

\* C16: every application-level error (bad credentials, duplicate signup,
\* group not found, wrong PIN, not-creator, target-user-unknown,
\* already-a-member) produces exactly one result or SYSTEM text sent to the
\* requesting connection only, and leaves that connection open and its
\* session intact.
C16_ErrorsAnsweredSessionIntact ==
    [][\A c \in Conns :
         (BadCredentials(c) \/ DuplicateSignup(c) \/ JoinError(c) \/ AddUserError(c)) =>
            /\ OneErrorReply(c)
            /\ SessionIntact(c)]_vars

(***************************************************************************)
(* Claims about private messages and history (under SpecMessages)          *)
(***************************************************************************)

\* The history push for a fetch by identity name with partner over table
\* tbl holds a record with sender A and content m.
HistoryReturns(tbl, name, partner, A, m) ==
    \E i \in 1..Len(history_data(tbl, name, partner)) :
        /\ history_data(tbl, name, partner)[i].sender = A
        /\ history_data(tbl, name, partner)[i].content = m

\* C10: once identity A has sent a private text m to B, a history fetch by A
\* with B and one by B with A return m with sender A and the original
\* content, and what a fetch between two identities returns it still returns
\* after every further step.
C10_HistoryReturnsEveryPrivateText ==
    [][/\ \A c \in Conns :
            (/\ Handled(c, "private")
             /\ username[c] # NONE
             /\ last'.frame.to # ""
             /\ Len(last'.frame.content) > 0) =>
                LET A == username[c]
                    B == last'.frame.to
                    m == last'.frame.content
                IN  /\ HistoryReturns(messages', A, B, A, m)
                    /\ HistoryReturns(messages', B, A, A, m)
       /\ \A A \in Users, B \in Users, S \in Users, m \in Contents :
            HistoryReturns(messages, A, B, S, m) =>
                HistoryReturns(messages', A, B, S, m)]_vars

\* The records of table tbl exchanged between identities A and B, oldest
\* first.
RecordsBetween(tbl, A, B) ==
    SelectSeq(tbl, LAMBDA r : {r.sender, r.receiver} = {A, B})

\* The last n elements of sequence rows (all of them if there are fewer).
LastN(rows, n) ==
    IF Len(rows) <= n THEN rows ELSE SubSeq(rows, Len(rows) - n + 1, Len(rows))

\* C11: a history fetch returns at most 50 records, and they are the 50 most
\* recent records between the two identities (all of them when there are at
\* most 50), oldest first, with the content decrypted.
C11_HistoryReturnsMostRecent50 ==
    [][\A c \in Conns :
         (Handled(c, "req_history") /\ last'.frame.with # "" /\ username[c] # NONE) =>
            LET recent == LastN(RecordsBetween(messages, username[c], last'.frame.with),
                                HISTORY_LIMIT)
                data == out'[c][1].data
            IN  /\ Len(out'[c]) = 1
                /\ Len(data) <= HISTORY_LIMIT
                /\ Len(data) = Len(recent)
                /\ \A i \in 1..Len(data) :
                      /\ data[i].sender = recent[i].sender
                      /\ data[i].content = decrypt_data(recent[i].content)]_vars

\* The private push of content from sender.
PrivatePush(sender, content) == [type |-> "private", from |-> sender, content |-> content]

\* C12: every private message with a non-empty receiver and content from a
\* logged-in sender appends exactly one record (sender, receiver, encrypted
\* content, kind text) to the message log, whether or not the receiver is
\* connected; the plaintext is pushed to the receiver's socket exactly when
\* the receiver has a registry entry; and no login pushes a private message.
C12_PrivateAlwaysPersisted ==
    [][\A c \in Conns :
         /\ (/\ Handled(c, "private")
             /\ username[c] # NONE
             /\ last'.frame.to # ""
             /\ Len(last'.frame.content) > 0) =>
               LET to == last'.frame.to
                   content == last'.frame.content
               IN  /\ Len(messages') = Len(messages) + 1
                   /\ SubSeq(messages', 1, Len(messages)) = messages
                   /\ messages'[Len(messages')].sender = username[c]
                   /\ messages'[Len(messages')].receiver = to
                   /\ messages'[Len(messages')].msg_type = "text"
                   /\ messages'[Len(messages')].content # content
                   /\ decrypt_data(messages'[Len(messages')].content) = content
                   /\ (to \in DOMAIN clients /\ pc[clients[to]] # "closed") =>
                         out' = [EmptyOut EXCEPT ![clients[to]] =
                                    <<PrivatePush(username[c], content)>>]
                   /\ to \notin DOMAIN clients => out' = EmptyOut
         /\ Handled(c, "<register>") =>
               \A d \in Conns : \A i \in 1..Len(out'[d]) : out'[d][i].type # "private"]_vars

\* C15: a voice_msg {to, content, duration} sent by a logged-in A to an
\* identity B whose registry entry is an open socket results in a voice_msg
\* push to B that mirrors the input plus from=A, and A's connection stays
\* open.
C15_VoiceMessageRelayed ==
    [][\A c \in Conns :
         (/\ Handled(c, "voice_msg")
          /\ username[c] # NONE
          /\ last'.frame.to \in DOMAIN clients
          /\ pc[clients[last'.frame.to]] # "closed") =>
            /\ pc'[c] = "recv"
            /\ \E i \in 1..Len(out'[clients[last'.frame.to]]) :
                  LET push == out'[clients[last'.frame.to]][i]
                  IN  /\ push.type = "voice_msg"
                      /\ push.from = username[c]
                      /\ push.content = last'.frame.content
                      /\ push.duration = last'.frame.duration]_vars

(***************************************************************************)
(* Claims about group traffic (under SpecTraffic)                          *)
(***************************************************************************)

\* The members of room g, other than S, whose registry entry is an open
\* socket.
OnlineOthers(g, S) ==
    {m \in Elems(Members(groups, g)) \ {S} :
        m \in DOMAIN clients /\ pc[clients[m]] # "closed"}

GroupTrafficTypes ==
    {"group_msg", "group_file", "group_voice_msg", "group_call", "group_call_accept"}

\* C14: handling group_msg, group_file, group_voice_msg, group_call or
\* group_call_accept leaves the message log unchanged; and the records of a
\* history push are private records of the log, so no group traffic appears
\* in a history fetch.
C14_GroupTrafficNotPersisted ==
    [][\A c \in Conns :
         /\ (\E t \in GroupTrafficTypes : Handled(c, t)) =>
               messages' = messages
         /\ (Handled(c, "req_history") /\ last'.frame.with # "") =>
               /\ Len(out'[c]) = 1
               /\ \A i \in 1..Len(out'[c][1].data) :
                     \E j \in 1..Len(messages) :
                        /\ messages[j].sender = out'[c][1].data[i].sender
                        /\ messages[j].receiver \in Users
                        /\ decrypt_data(messages[j].content) = out'[c][1].data[i].content]_vars

\* C14's case: a group message has just been delivered to another member
\* and the log still holds only the private record it held before.
C14_Witness ==
    /\ last.frame.type \in GroupTrafficTypes
    /\ \E d \in Conns : Len(out[d]) = 1 /\ out[d][1].type = last.frame.type
    /\ Len(messages) = 1
    /\ messages[1].msg_type = "text"
    /\ history_data(messages, "bob", "alice")
         = <<[sender |-> "alice", content |-> TextHi, type |-> "text"]>>

(***************************************************************************)
(* Claims about framing and dispatch (under Spec)                          *)
(***************************************************************************)

\* The step just taken read wire frame f on socket c.
Read(c, f) == Handled(c, "<wire>") /\ last'.frame.wire = f

\* A frame with a non-numeric header, a header or payload cut short, or a
\* payload that is not JSON.
ProtocolError(f) == f.header # "numeric" \/ ~f.complete \/ ~f.parses

\* m is a presence list for the registry reg: a list push that holds every
\* signed-up identity exactly once, online exactly when it is a key of reg.
PresenceList(m, reg) ==
    /\ m.type = "list"
    /\ Len(m.users) = Cardinality(DOMAIN users)
    /\ \A u \in DOMAIN users :
          \E i \in 1..Len(m.users) :
             m.users[i] = [username |-> u,
                           status |-> IF u \in DOMAIN reg THEN "online" ELSE "offline"]

\* The disconnect path of socket c: the socket is closed; if its handler's
\* identity has a registry entry, that entry is deleted and each open socket
\* gets the presence list once per registry entry it still holds; otherwise
\* the registry is unchanged and nothing is sent; the tables are unchanged.
DisconnectPath(c) ==
    /\ pc' = [pc EXCEPT ![c] = "closed"]
    /\ IF username[c] # NONE /\ username[c] \in DOMAIN clients
       THEN /\ DOMAIN clients' = DOMAIN clients \ {username[c]}
            /\ \A v \in DOMAIN clients' : clients'[v] = clients[v]
            /\ \A d \in Conns :
                  /\ Len(out'[d]) = IF pc[d] = "closed" THEN 0
                                    ELSE Cardinality({v \in DOMAIN clients' : clients'[v] = d})
                  /\ \A i \in 1..Len(out'[d]) : PresenceList(out'[d][i], clients')
       ELSE /\ clients' = clients
            /\ out' = EmptyOut
    /\ UNCHANGED <<users, groups, messages, group_calls, username>>

\* C17: a frame with a non-numeric header, a short read of header or
\* payload, or a payload that fails JSON parsing ends the session exactly as
\* an orderly disconnect (end of stream) does: the handler runs the
\* disconnect path and, the socket being closed, reads no further frame.
C17_ProtocolErrorIsDisconnect ==
    [][\A c \in Conns :
         (Handled(c, "<eof>") \/ \E f \in WireFrames : ProtocolError(f) /\ Read(c, f)) =>
            DisconnectPath(c)]_vars

\* C17's case: a logged-in connection sent a payload that is not JSON while
\* another session was open; its registry entry is gone, the socket is
\* closed and the other session got the presence list.
C17_Witness ==
    /\ last.frame.type = "<wire>"
    /\ last.frame.wire.header = "numeric"
    /\ last.frame.wire.complete
    /\ ~last.frame.wire.parses
    /\ pc[last.conn] = "closed"
    /\ username[last.conn] \in Users
    /\ username[last.conn] \notin DOMAIN clients
    /\ \E d \in Conns \ {last.conn} :
          /\ Len(out[d]) = 1
          /\ out[d][1].type = "list"
          /\ \E i \in 1..Len(out[d][1].users) :
                out[d][1].users[i] = [username |-> username[last.conn],
                                      status |-> "offline"]

\* C18: every well-formed frame whose JSON object carries a type outside the
\* catalog, or no type at all, is ignored: no state changes, nothing is sent
\* to anyone, and the connection stays open for the next frame.
C18_UnknownTypeIgnored ==
    [][\A c \in Conns : \A f \in WireFrames :
         (/\ Read(c, f)
          /\ ~ProtocolError(f)
          /\ f.value.json = "object"
          /\ f.value.type \notin CatalogTypes) =>
            /\ StateUnchanged
            /\ out' = EmptyOut
            /\ pc'[c] = "recv"]_vars

(***************************************************************************)
(* Claims about signup and login (under Spec)                              *)
(***************************************************************************)

\* No registry entry is created or removed and no handler changes identity.
NoSessionChange == clients' = clients /\ username' = username /\ pc' = pc

\* C19 (as amended): signup for an identity that already exists fails with
\* auth_result success=false and leaves the stored hash unchanged; for a new
\* identity with a non-empty name and password it stores the password's
\* hash and reports success; with an empty name or password it fails with
\* 'Invalid credentials' and stores nothing; in no case is a registry entry
\* created.
C19_SignupStoresHashOnce ==
    [][\A c \in Conns :
         Handled(c, "signup") =>
            LET u == last'.frame.username
                p == last'.frame.password
            IN  /\ NoSessionChange
                /\ \A d \in Conns \ {c} : out'[d] = <<>>
                /\ Len(out'[c]) = 1
                /\ out'[c][1].type = "auth_result"
                /\ IF u \in DOMAIN users THEN
                        /\ out'[c][1].success = FALSE
                        /\ users' = users
                   ELSE IF u # "" /\ p # "" THEN
                        /\ out'[c][1].success = TRUE
                        /\ DOMAIN users' = DOMAIN users \cup {u}
                        /\ users'[u] = [sha256 |-> p]
                        /\ \A v \in DOMAIN users : users'[v] = users[v]
                   ELSE
                        /\ out'[c][1] = AuthResult(FALSE, "Invalid credentials")
                        /\ users' = users]_vars

\* C19 as stated: every signup for a new identity stores the hash and
\* reports success.
C19_AsStated ==
    [][\A c \in Conns :
         (Handled(c, "signup") /\ last'.frame.username \in Users \ DOMAIN users) =>
            /\ Len(out'[c]) = 1
            /\ out'[c][1].success = TRUE
            /\ last'.frame.username \in DOMAIN users'
            /\ users'[last'.frame.username] = [sha256 |-> last'.frame.password]]_vars

\* C19's case: a signup for an existing identity with another password was
\* refused, the stored hash is the old one, and the connection has no
\* session.
C19_Witness ==
    /\ last.frame.type = "signup"
    /\ last.frame.username \in DOMAIN users
    /\ last.frame.password # ""
    /\ users[last.frame.username] # [sha256 |-> last.frame.password]
    /\ out[last.conn] = <<AuthResult(FALSE, "Username exists")>>
    /\ username[last.conn] = NONE

\* C20: a login fails with 'Invalid credentials' whenever the identity is
\* unknown or the password's hash differs from the stored hash, whether or
\* not the identity has a session, and the registry is unchanged by it.
C20_BadLoginInvalidCredentials ==
    [][\A c \in Conns :
         BadCredentials(c) =>
            /\ out'[c] = <<AuthResult(FALSE, "Invalid credentials")>>
            /\ \A d \in Conns \ {c} : out'[d] = <<>>
            /\ clients' = clients
            /\ pc'[c] = "recv"]_vars

\* C20's case: a login with the wrong password for an identity that has a
\* session on another socket was answered 'Invalid credentials'.
C20_Witness ==
    /\ last.frame.type = "login"
    /\ last.frame.username \in DOMAIN clients
    /\ clients[last.frame.username] # last.conn
    /\ pc[clients[last.frame.username]] = "recv"
    /\ last.frame.password # ""
    /\ users[last.frame.username] # [sha256 |-> last.frame.password]
    /\ out[last.conn] = <<AuthResult(FALSE, "Invalid credentials")>>

(***************************************************************************)
(* Claims about 1:1 call signalling (under SpecMessages)                   *)
(***************************************************************************)

\* C21: a call, call_accept or call_reject from sender S addressed to T is
\* forwarded, as received but with from=S, to T's registry socket when T has
\* a registry entry; when T has none the signal is dropped: no state changes
\* and nothing is sent to S or to anyone else.
C21_CallSignalRelayed ==
    [][\A c \in Conns :
         (\E t \in CallTypes : Handled(c, t)) =>
            LET T == last'.frame.to
                push == [type |-> last'.frame.type, to |-> T, from |-> username[c]]
            IN  /\ StateUnchanged
                /\ IF T \in DOMAIN clients
                   THEN /\ pc[clients[T]] # "closed" => out'[clients[T]] = <<push>>
                        /\ \A d \in Conns \ {clients[T]} : out'[d] = <<>>
                   ELSE out' = EmptyOut]_vars

\* C21's case: alice sent bob a call frame that names bob as its sender, and
\* bob's socket got the call with from=alice.
C21_Witness ==
    /\ last.frame.type = "call"
    /\ last.frame.to = "bob"
    /\ last.frame.from = "bob"
    /\ username[last.conn] = "alice"
    /\ "bob" \in DOMAIN clients
    /\ clients["bob"] # last.conn
    /\ out[clients["bob"]] = <<[type |-> "call", to |-> "bob", from |-> "alice"]>>
(***************************************************************************)
(* Claims about calls and the media relays (under SpecUdp and SpecCalls)   *)
(***************************************************************************)

\* The number of entries of roster that are name.
RECURSIVE Count(_, _)
Count(roster, name) ==
    IF Len(roster) = 0 THEN 0
    ELSE (IF Head(roster) = name THEN 1 ELSE 0) + Count(Tail(roster), name)

\* The members of room g whose registry entry is an open socket.
OnlineMembers(g) ==
    {m \in Elems(Members(groups, g)) :
        m \in DOMAIN clients /\ pc[clients[m]] # "closed"}

\* C22: group_call_accept is idempotent on the roster: an accept by an
\* identity already on the room's roster leaves the roster as it is, after
\* any accept the identity is on the roster exactly once, and each accept
\* (a repeated one too) is pushed once to the socket of every connected
\* member of the room, the accepting member included, and to nobody else.
C22_GroupCallAcceptIdempotent ==
    [][\A c \in Conns :
         (/\ Handled(c, "group_call_accept")
          /\ username[c] # NONE
          /\ is_group_member(username[c], last'.frame.room_name)) =>
            LET g == last'.frame.room_name
                S == username[c]
                push == [type |-> "group_call_accept", room_name |-> g, from |-> S]
            IN  /\ g \in DOMAIN group_calls'
                /\ Count(group_calls'[g], S) = 1
                /\ (g \in DOMAIN group_calls /\ S \in Elems(group_calls[g])) =>
                      group_calls' = group_calls
                /\ \A m \in OnlineMembers(g) : out'[clients[m]] = <<push>>
                /\ S \in OnlineMembers(g)
                /\ \A d \in Conns \ {clients[m] : m \in OnlineMembers(g)} :
                      out'[d] = <<>>]_vars

\* C22's case: alice accepted the call of room "team" when both alice and
\* bob were already on the roster; the roster did not change and both
\* sockets got the acceptance.
C22_Witness ==
    /\ last.frame.type = "group_call_accept"
    /\ last.conn = "c1"
    /\ "team" \in DOMAIN group_calls
    /\ group_calls["team"] = <<"bob", "alice">>
    /\ Len(out["c1"]) = 1 /\ out["c1"][1].from = "alice"
    /\ Len(out["c2"]) = 1 /\ out["c2"][1].from = "alice"

\* C23: call rosters and UDP endpoint tables only grow or are overwritten:
\* no step (group_leave, call_reject, disconnect, any datagram) removes a
\* room's roster, an identity from a roster, or an identity's endpoint
\* binding in either relay, and a binding changes only to the source address
\* of a registration.
C23_RostersAndEndpointsOnlyGrow ==
    [][/\ \A g \in DOMAIN group_calls :
             /\ g \in DOMAIN group_calls'
             /\ Elems(group_calls[g]) \subseteq Elems(group_calls'[g])
       /\ \A n \in dict_keys(udp_audio_clients) :
             /\ n \in dict_keys(udp_audio_clients')
             /\ dict_get(udp_audio_clients', n) # dict_get(udp_audio_clients, n) =>
                   /\ last'.frame.type = "<datagram>"
                   /\ startswith(last'.frame.data, REG)
                   /\ dict_get(udp_audio_clients', n) = last'.frame.addr
       /\ \A n \in dict_keys(udp_video_clients) :
             /\ n \in dict_keys(udp_video_clients')
             /\ dict_get(udp_video_clients', n) # dict_get(udp_video_clients, n) =>
                   /\ last'.frame.type = "<datagram>"
                   /\ startswith(last'.frame.data, REG)
                   /\ dict_get(udp_video_clients', n) = last'.frame.addr]_vars

\* C23's case: alice left room "team" and her connection ended, and she is
\* still on the room's call roster and still has her audio and video
\* endpoints.
C23_Witness ==
    /\ last.frame.type = "<eof>"
    /\ last.conn = "c1"
    /\ "alice" \notin DOMAIN clients
    /\ "alice" \notin Elems(Members(groups, "team"))
    /\ "team" \in DOMAIN group_calls
    /\ "alice" \in Elems(group_calls["team"])
    /\ "alice" \in dict_keys(udp_audio_clients)
    /\ "alice" \in dict_keys(udp_video_clients)

\* The step just taken was a turn of relay r on datagram data from addr.
Datagram(r, data, addr) ==
    /\ last'.frame.type = "<datagram>"
    /\ last'.frame.relay = r
    /\ last'.frame.data = data
    /\ last'.frame.addr = addr

\* The endpoint table of relay r.
Endpoints(r) == IF r = "audio" THEN udp_audio_clients ELSE udp_video_clients

\* The private and the group tag of relay r.
PrivateTag(r) == IF r = "audio" THEN TagA ELSE TagV
GroupTag(r) == IF r = "audio" THEN TagG ELSE TagH

\* The <id> of a REG:<id> datagram: the text after "REG:".
RegId(data) == decode(SubSeq(data, Len(REG) + 1, Len(data)))

\* The name and the payload of a tagged datagram <tag><name>\0<payload>.
TaggedName(data) == decode(SubSeq(data, 2, IndexFrom(data, 0, 2) - 1))
TaggedPayload(data) == SubSeq(data, IndexFrom(data, 0, 2) + 1, Len(data))

\* Every datagram of the model.
AllDatagrams == AudioDatagrams \cup VideoDatagrams

\* C25 for the identities ids: in relay r, (1) a REG:<id> datagram binds <id>
\* to its source address, (2) the binding of <id> is made or changed by a
\* REG:<id> datagram only, (3) a private-tagged datagram addressed to <id>
\* sends exactly the payload after the NUL, once, to the address <id> is bound
\* to, or nothing if <id> is not bound, and changes no table.
PrivateForward(r, ids) ==
    \A data \in AllDatagrams, addr \in Addrs :
       Datagram(r, data, addr) =>
          LET T == Endpoints(r)
              id == IF startswith(data, REG) THEN RegId(data) ELSE TaggedName(data)
          IN  /\ (startswith(data, REG) /\ id \in ids) =>
                    (id \in dict_keys(T') /\ dict_get(T', id) = addr)
              /\ \A n \in ids \ (IF startswith(data, REG) THEN {id} ELSE {}) :
                    /\ n \in dict_keys(T') <=> n \in dict_keys(T)
                    /\ n \in dict_keys(T) => dict_get(T', n) = dict_get(T, n)
              /\ (/\ startswith(data, PrivateTag(r))
                  /\ IndexFrom(data, 0, 2) # 0
                  /\ id \in ids) =>
                    /\ udp_sent' =
                          IF id \in dict_keys(T)
                          THEN <<[relay |-> r, addr |-> dict_get(T, id),
                                  payload |-> TaggedPayload(data)]>>
                          ELSE <<>>
                    /\ UNCHANGED <<udp_audio_clients, udp_video_clients>>

\* C25: in each relay, after REG:<id> datagrams from one or more addresses,
\* a private-tagged datagram addressed to <id> forwards exactly the payload
\* bytes after the NUL to the address of the most recent registration of
\* <id> in that relay; if <id> was never registered in that relay nothing is
\* sent to anyone and no table changes.
C25_PrivateMediaToLatestRegistration ==
    [][\A r \in {"audio", "video"} : PrivateForward(r, UdpNames)]_vars

\* The identities bound to address addr in table T.
Resolves(T, addr) == {n \in dict_keys(T) : dict_get(T, n) = addr}

\* C26: a group-tagged datagram for room R whose source address resolves to
\* a registered identity S is forwarded, payload intact and once each, to
\* every identity of R's roster other than S that has an endpoint in that
\* relay, and to no one else; it is dropped when the source address is not
\* registered or R has no roster; no table changes.
C26_GroupMediaToOtherParticipants ==
    [][\A r \in {"audio", "video"} : \A data \in AllDatagrams, addr \in Addrs :
         (/\ Datagram(r, data, addr)
          /\ startswith(data, GroupTag(r))
          /\ IndexFrom(data, 0, 2) # 0) =>
            LET T == Endpoints(r)
                R == TaggedName(data)
            IN  /\ UNCHANGED <<udp_audio_clients, udp_video_clients>>
                /\ IF R \in DOMAIN group_calls /\ Resolves(T, addr) # {}
                   THEN \E S \in Resolves(T, addr) :
                          LET to == SelectSeq(group_calls[R],
                                      LAMBDA m : m # S /\ m \in dict_keys(T))
                          IN  udp_sent' =
                                [i \in 1..Len(to) |->
                                   [relay |-> r, addr |-> dict_get(T, to[i]),
                                    payload |-> TaggedPayload(data)]]
                   ELSE udp_sent' = <<>>]_vars

\* C26's case: alice (at x) and bob (at y) are on the roster of "team" and
\* registered with the audio relay; a group audio datagram from x went to y
\* only.
C26_Witness ==
    /\ last.frame.type = "<datagram>"
    /\ last.frame.relay = "audio"
    /\ last.frame.data = Tagged(TagG, "team")
    /\ last.frame.addr = "x"
    /\ "team" \in DOMAIN group_calls
    /\ Elems(group_calls["team"]) = {"alice", "bob"}
    /\ Resolves(udp_audio_clients, "x") = {"alice"}
    /\ Resolves(udp_audio_clients, "y") = {"bob"}
    /\ udp_sent = <<[relay |-> "audio", addr |-> "y", payload |-> Payload]>>

(***************************************************************************)
(* Claims about the persistence lock (under SpecLock)                      *)
(***************************************************************************)

\* The membership list after the operation of frame, requested by identity
\* name, is applied to the list cur.
Applied(frame, name, cur) ==
    IF frame.type = "group_join" THEN Append(cur, name)
    ELSE IF frame.type = "group_leave" THEN SelectSeq(cur, LAMBDA m : m # name)
    ELSE Append(cur, frame.target_user)

\* The operation of frame, requested by name, succeeds on the list cur.
Applicable(frame, name, cur) ==
    IF frame.type = "group_join" THEN name \notin Elems(cur)
    ELSE IF frame.type = "group_leave" THEN name \in Elems(cur)
    ELSE frame.target_user \notin Elems(cur)

\* C27: concurrent membership mutations of one group (join, leave, add from
\* different connections) are serialized by the persistence lock: every
\* write of a membership list stores the result of the writer's operation
\* applied to the list stored just before the write, on which the operation
\* succeeds, and nothing else changes the table; so the final membership is
\* the successful operations applied one after the other, none lost.
C27_MembershipMutationsSerialized ==
    [][/\ \A c \in Conns :
             Handled(c, "<update>") =>
                LET frame == locals[c].frame
                    g == frame.room_name
                    cur == Members(groups, g)
                IN  /\ Applicable(frame, username[c], cur)
                    /\ OnlyMembersChanged(g, Applied(frame, username[c], cur))
       /\ groups' # groups => last'.frame.type = "<update>"]_vars

\* C27's case: alice and bob both asked to leave "team"; while alice's
\* handler waited for the lock bob's leave was written, and alice is still
\* a member.
C27_Witness ==
    /\ last.frame.type = "<update>"
    /\ last.conn = "c2"
    /\ db_lock = "c2"
    /\ pc["c1"] = "lock"
    /\ locals["c1"].frame.type = "group_leave"
    /\ locals["c2"].frame.type = "group_leave"
    /\ Members(groups, "team") = <<"alice">>

(***************************************************************************)
(* Claims about group list pushes (under SpecGroups)                       *)
(***************************************************************************)

\* Socket c is the registry entry of some identity.
Registered(reg, c) == \E u \in DOMAIN reg : reg[u] = c

\* The step sent socket d a my_groups_list that is identity name's list over
\* the groups table as the step left it.
SentFreshMyGroups(d, name) ==
    \E i \in 1..Len(out'[d]) :
        /\ out'[d][i].type = "my_groups_list"
        /\ out'[d][i].groups = MyGroups(groups', name)

\* The step sent socket d an all_groups_list that is the whole directory as
\* the step left it.
SentDirectory(d) ==
    \E i \in 1..Len(out'[d]) :
        /\ out'[d][i].type = "all_groups_list"
        /\ out'[d][i].groups = DOMAIN groups'

\* The step handled a frame of type t from the session of identity S on
\* socket c and changed the groups table.
Mutated(c, t) ==
    /\ Handled(c, t)
    /\ username[c] # NONE
    /\ groups' # groups

\* C28: every successful group mutation pushes a fresh my_groups_list to the
\* identity whose membership changed (the creator on create, the joiner on
\* join, the leaver on leave, the target on add when it is connected), and
\* a successful create also sends every connected session an
\* all_groups_list that holds the new name.
C28_MutationPushesGroupLists ==
    [][\A c \in Conns :
         /\ (Mutated(c, "group_create") \/ Mutated(c, "group_join")
                \/ Mutated(c, "group_leave")) =>
               /\ clients[username[c]] = c
               /\ SentFreshMyGroups(c, username[c])
         /\ Mutated(c, "group_create") =>
               /\ last'.frame.room_name \in DOMAIN groups' \ DOMAIN groups
               /\ \A d \in Conns :
                     (pc[d] # "closed" /\ Registered(clients, d)) => SentDirectory(d)
         /\ Mutated(c, "group_add_user") =>
               LET t == last'.frame.target_user
               IN  (t \in DOMAIN clients /\ pc[clients[t]] # "closed") =>
                      SentFreshMyGroups(clients[t], t)]_vars

\* C28's case: alice created room "team" while bob was logged in: alice got
\* her my_groups_list with the room and bob the directory listing with it.
C28_Witness ==
    /\ last.frame.type = "group_create"
    /\ last.conn = "c1"
    /\ username["c1"] = "alice"
    /\ "bob" \in DOMAIN clients /\ clients["bob"] = "c2" /\ pc["c2"] = "recv"
    /\ \E i \in 1..Len(out["c1"]) :
          /\ out["c1"][i].type = "my_groups_list"
          /\ out["c1"][i].groups = {[name |-> "team", creator |-> "alice"]}
    /\ \E i \in 1..Len(out["c2"]) :
          /\ out["c2"][i].type = "all_groups_list"
          /\ out["c2"][i].groups = {"team"}

(***************************************************************************)
(* Claims about presence and the registry (under Spec)                     *)
(***************************************************************************)

\* The step closed socket c.
Closes(c) == pc[c] # "closed" /\ pc'[c] = "closed"

\* Every open socket of the registry was sent a presence list computed from
\* the registry as the step left it.
ListPushed ==
    \A d \in Conns :
       (pc'[d] # "closed" /\ Registered(clients', d)) =>
          \E i \in 1..Len(out'[d]) : PresenceList(out'[d][i], clients')

\* C24: after every successful login and every disconnect of a logged-in
\* session, every session then in the registry is sent a list push that
\* holds every signed-up identity exactly once, marked online exactly when
\* the identity has a registry entry at the time of the push.
C24_PresencePushedOnLoginAndDisconnect ==
    [][\A c \in Conns :
         (Handled(c, "<register>") \/ (Closes(c) /\ Registered(clients, c))) =>
            ListPushed]_vars

\* C29: each registry entry u -> c refers to an open connection whose handler
\* holds identity u, and no connection appears under more than one identity.
C29_RegistryConsistent ==
    \A u \in DOMAIN clients :
        /\ pc[clients[u]] # "closed"
        /\ username[clients[u]] = u
        /\ \A v \in DOMAIN clients \ {u} : clients[v] # clients[u]

\* The step answered a login frame on socket c with a failure.
LoginRejected(c) ==
    /\ Handled(c, "login")
    /\ Len(out'[c]) = 1
    /\ out'[c][1].type = "auth_result"
    /\ ~out'[c][1].success

\* C30: a login frame that is rejected (invalid credentials or already
\* logged in) on a connection that is already authenticated leaves the
\* connection's identity unchanged, so its later frames are still attributed
\* to the identity it logged in as.
C30_RejectedLoginKeepsIdentity ==
    [][\A c \in Conns :
         (LoginRejected(c) /\ username[c] # NONE) =>
            username'[c] = username[c]]_vars

(***************************************************************************)
(* Claims about authentication and authorisation                          *)
(***************************************************************************)

\* The events of `last` that are not frames read from a socket.
EventTypes == {"<start>", "<accept>", "<register>", "<eof>", "<datagram>"}

\* C31: a connection that has not successfully logged in cannot change any
\* group membership, call roster or message log and cannot cause any message
\* to be pushed to another session: every frame other than signup and login
\* from such a connection leaves the groups table, the rosters and the
\* message log as they were and sends nothing to any other socket.
C31_UnauthenticatedFramesHaveNoEffect ==
    [][\A c \in Conns :
         (/\ last'.conn = c
          /\ last'.frame.type \notin EventTypes \cup {"signup", "login"}
          /\ username[c] = NONE
          /\ ~Registered(clients, c)) =>
            /\ UNCHANGED <<groups, group_calls, messages>>
            /\ \A d \in Conns \ {c} : out'[d] = <<>>]_vars

\* C32: in every reachable state each identity in a room's call roster is a
\* current member of the group with that name.
C32_RosterWithinMembership ==
    \A g \in DOMAIN group_calls :
        /\ g \in DOMAIN groups
        /\ Elems(group_calls[g]) \subseteq Elems(Members(groups, g))

\* C33: a group_msg, group_file, group_voice_msg or group_call sent by an
\* identity that is not currently a member of the named group, or naming a
\* group that does not exist, is delivered to no session and changes no
\* state.
C33_NonMemberTrafficDropped ==
    [][\A c \in Conns :
         (\E t \in {"group_msg", "group_file", "group_voice_msg", "group_call"} :
             Handled(c, t)) =>
            \/ out' = EmptyOut /\ StateUnchanged
            \/ /\ last'.frame.room_name \in DOMAIN groups
               /\ username[c] \in Elems(Members(groups, last'.frame.room_name))]_vars

\* C33's case: bob, logged in but not a member of "team", sent it a
\* group_msg with content while alice, a member, had a session; nothing was
\* sent.
C33_Witness ==
    /\ last.frame.type = "group_msg"
    /\ last.conn = "c2"
    /\ last.frame.room_name = "team"
    /\ last.frame.content = TextHi
    /\ username["c2"] = "bob"
    /\ "team" \in DOMAIN groups
    /\ Members(groups, "team") = <<"alice">>
    /\ "alice" \in DOMAIN clients /\ pc[clients["alice"]] = "recv"
    /\ out = EmptyOut

\* C34: a group-tagged datagram for room R is forwarded only if the identity
\* resolved from its source address is itself in R's call roster; a
\* registered endpoint outside the roster cannot inject media into the room.
C34_GroupMediaOnlyFromRoster ==
    [][\A r \in {"audio", "video"} : \A data \in AllDatagrams, addr \in Addrs :
         (/\ Datagram(r, data, addr)
          /\ startswith(data, GroupTag(r))
          /\ udp_sent' # <<>>) =>
            /\ TaggedName(data) \in DOMAIN group_calls
            /\ \E S \in Resolves(Endpoints(r), addr) :
                  S \in Elems(group_calls[TaggedName(data)])]_vars

(***************************************************************************)
(* Claims about the persisted membership (under SpecGroups)                *)
(***************************************************************************)

\* No two positions of list hold the same value.
NoDuplicates(list) ==
    \A i, j \in 1..Len(list) : list[i] = list[j] => i = j

\* C35: after any sequence of create, join, leave and add_by_creator
\* operations, every group's persisted membership list contains each
\* identity at most once.
C35_MembershipHasNoDuplicates ==
    \A g \in DOMAIN groups : NoDuplicates(Members(groups, g))

\* C35's case: a member of a two-member group asked to join it again and was
\* refused; the list still has two entries.
C35_Witness ==
    /\ last.frame.type = "group_join"
    /\ Len(out[last.conn]) = 1
    /\ out[last.conn][1].type = "text"
    /\ out[last.conn][1].content = <<"Already in group">>
    /\ "team" \in DOMAIN groups
    /\ Len(Members(groups, "team")) = 2
    /\ username[last.conn] \in Users

(***************************************************************************)
(* Claims about history and push attribution (under SpecMessages)          *)
(***************************************************************************)

\* C36: a history push sent to a session contains only records in which the
\* session's own identity is the sender or the receiver: the push goes to the
\* requesting socket only, and each of its records is a stored record
\* exchanged between the requester's identity and the `with` identity, with
\* no more records than there are such rows; so no `with` lets identity C
\* obtain a record exchanged between two other identities.
C36_HistoryOnlyOwnRecords ==
    [][\A c \in Conns :
         Handled(c, "req_history") =>
            /\ \A d \in Conns \ {c} : out'[d] = <<>>
            /\ Len(out'[c]) <= 1
            /\ Len(out'[c]) = 1 =>
                  LET p == out'[c][1]
                      own == RecordsBetween(messages, username[c], last'.frame.with)
                  IN  /\ p.type = "history"
                      /\ Len(p.data) <= Len(own)
                      /\ \A i \in 1..Len(p.data) :
                            \E k \in 1..Len(own) :
                               /\ own[k].sender = p.data[i].sender
                               /\ decrypt_data(own[k].content) = p.data[i].content]_vars

\* C36's case: the log holds a message alice sent to herself and one she
\* sent to bob; bob fetched his history with alice and got one record.
C36_Witness ==
    /\ last.frame.type = "req_history"
    /\ last.frame.with = "alice"
    /\ username[last.conn] = "bob"
    /\ \E k \in 1..Len(messages) :
          messages[k].sender = "alice" /\ messages[k].receiver = "alice"
    /\ \E k \in 1..Len(messages) :
          messages[k].sender = "alice" /\ messages[k].receiver = "bob"
    /\ Len(out[last.conn]) = 1
    /\ Len(out[last.conn][1].data) = 1

\* The types of the pushes that carry a sender's identity in `from`.
AttributedTypes ==
    {"private", "file", "group_msg", "group_file", "group_voice_msg", "group_call",
     "group_call_accept"} \cup CallTypes

\* C37: the `from` field of every private, file, group and call-signalling
\* push equals the identity the sending connection logged in as (the
\* identity whose registry entry the connection is); a `from` value supplied
\* by the client in its own frame never reaches a recipient.
C37_FromIsLoggedInIdentity ==
    [][\A c \in Conns :
         (/\ last'.conn = c
          /\ last'.frame.type \in AttributedTypes
          /\ Registered(clients, c)) =>
            \A d \in Conns : \A i \in 1..Len(out'[d]) :
               (/\ out'[d][i].type \in AttributedTypes
                /\ out'[d][i].from # "SYSTEM") =>
                  \E u \in DOMAIN clients : clients[u] = c /\ out'[d][i].from = u]_vars

(***************************************************************************)
(* Claims about concurrent broadcasts (under SpecRace)                     *)
(***************************************************************************)

\* C38: a presence broadcast that runs while another handler thread adds or
\* removes a registry entry still reaches every session that stays
\* connected throughout, and does not abort the broadcasting handler or skip
\* its remaining disconnect steps: a handler inside the broadcast is never
\* ended by an exception, and when it closes its socket every session that
\* was in the registry when the broadcast began and still is has been sent
\* the list.
C38_BroadcastSurvivesRegistryChange ==
    [][\A c \in Conns :
         pc[c] = "broadcast" =>
            /\ pc'[c] # "aborted"
            /\ pc'[c] = "closed" =>
                  \A u \in locals[c].todo : u \notin DOMAIN clients]_vars

(***************************************************************************)
(* Claims about the storage encoding (under SpecMessages)                  *)
(***************************************************************************)

\* C39: decrypt_data(encrypt_data(t)) = t for every non-empty text t, for
\* every character code a client can put in message content, so persisting
\* a private message never fails or alters its content: the handler of a
\* private message with receiver and content from a logged-in sender goes
\* on to its next frame, the log has one more record, and the content
\* decrypts to what was sent.
C39_EncryptDecryptRoundTrip ==
    [][\A c \in Conns :
         (/\ Handled(c, "private")
          /\ username[c] # NONE
          /\ last'.frame.to # ""
          /\ Len(last'.frame.content) > 0) =>
            /\ pc'[c] = "recv"
            /\ Len(messages') = Len(messages) + 1
            /\ decrypt_data(encrypt_data(last'.frame.content)) = last'.frame.content]_vars

(***************************************************************************)
(* Claims about the release of the persistence lock (under SpecLockFair)   *)
(***************************************************************************)

====
